---- MODULE Spec2Model ----
(***************************************************************************)
(* A model of the reasoning-loop core of cogent: the ReAct loop            *)
(* (reasoning/react.ts), its retry discipline, the tool registry           *)
(* (tool.ts), the approval system (security/approval.ts) and the agent     *)
(* facade (agent.ts).                                                      *)
(*                                                                         *)
(* Strings are modelled as sequences of tokens, so that includes, split,   *)
(* trim and the template literals of the source are computed, not assumed. *)
(***************************************************************************)
EXTENDS Integers, Sequences, FiniteSets, TLC

\* ------------------------------------------------------------------------
\* Bounds of the model
\* ------------------------------------------------------------------------
MaxSteps == 2

MaxRetriesBound == 3

\* ------------------------------------------------------------------------
\* Program constants
\* ------------------------------------------------------------------------
\* agent.ts: the facade constructs every ReActAgent with maxRetries = 3
FacadeMaxRetries == 3

\* react.ts: delay = 2 ** attempt * 1000
BackoffBase == 1000

\* ------------------------------------------------------------------------
\* Strings
\* ------------------------------------------------------------------------
Marker == "FINAL ANSWER:"

Sentinel == <<"Task incomplete: maximum steps reached">>

ContinuationPrompt == <<"Continue or provide ", Marker, " if done.">>

\* String.prototype.includes for a token
Includes(s, tok) == \E i \in 1..Len(s) : s[i] = tok

IndexOf(s, tok) == CHOOSE i \in 1..Len(s) : s[i] = tok /\ \A j \in 1..(i - 1) : s[j] # tok

\* String.prototype.split(sep): the sequence of the segments between separators
RECURSIVE Split(_, _)
Split(s, sep) ==
  IF ~Includes(s, sep) THEN <<s>>
  ELSE LET i == IndexOf(s, sep)
       IN <<SubSeq(s, 1, i - 1)>> \o Split(SubSeq(s, i + 1, Len(s)), sep)

RECURSIVE TrimStart(_)
TrimStart(s) == IF s # <<>> /\ s[1] = " " THEN TrimStart(Tail(s)) ELSE s

RECURSIVE TrimEnd(_)
TrimEnd(s) ==
  IF s # <<>> /\ s[Len(s)] = " " THEN TrimEnd(SubSeq(s, 1, Len(s) - 1)) ELSE s

\* String.prototype.trim
Trim(s) == TrimEnd(TrimStart(s))

\* ------------------------------------------------------------------------
\* JSON and schema validation
\* ------------------------------------------------------------------------
\* A JS object is a sequence of properties [key, type, val]; the JS value
\* undefined and the JSON value null are the two non-objects of the model.
JsObject(props) == [props |-> props, kind |-> "object"]

JsUndefined == [props |-> <<>>, kind |-> "undefined"]

JsNull == [props |-> <<>>, kind |-> "null"]

Prop(k, t, v) == [key |-> k, type |-> t, val |-> v]

JsonTypes == {"string", "number", "boolean"}

RECURSIVE PropsText(_)
PropsText(props) ==
  IF props = <<>> THEN <<>>
  ELSE <<props[1].key, props[1].type, props[1].val>> \o PropsText(Tail(props))

\* JSON.stringify; JSON.stringify(undefined) is undefined, which a string
\* parameter carries as the text "undefined"
JSONStringify(v) ==
  IF v.kind = "object" THEN <<"{">> \o PropsText(v.props) \o <<"}">>
  ELSE IF v.kind = "null" THEN <<"null">>
  ELSE <<"undefined">>

RECURSIVE PropsOf(_)
PropsOf(toks) ==
  IF toks = <<>> THEN <<>>
  ELSE <<Prop(toks[1], toks[2], toks[3])>> \o PropsOf(SubSeq(toks, 4, Len(toks)))

WellFormedObject(raw) ==
  /\ Len(raw) >= 2
  /\ raw[1] = "{"
  /\ raw[Len(raw)] = "}"
  /\ (Len(raw) - 2) % 3 = 0
  /\ \A i \in 2..(Len(raw) - 1) : raw[i] \notin {"{", "}"}
  /\ \A i \in 2..(Len(raw) - 1) : (i % 3 = 0) => raw[i] \in JsonTypes

\* JSON.parse: a value, or a SyntaxError
JSONParse(raw) ==
  IF raw = <<"null">> THEN [ok |-> TRUE, value |-> JsNull, message |-> <<>>]
  ELSE IF WellFormedObject(raw)
       THEN [ok |-> TRUE,
             value |-> JsObject(PropsOf(SubSeq(raw, 2, Len(raw) - 1))),
             message |-> <<>>]
       ELSE [ok |-> FALSE, value |-> JsUndefined,
             message |-> <<"Unexpected token in JSON">>]

\* A zod object schema: the fields in shape order
Field(k, t, opt) == [key |-> k, type |-> t, optional |-> opt]

HasKey(props, k) == \E i \in 1..Len(props) : props[i].key = k

\* JSON.parse keeps the last of duplicate keys
Lookup(props, k) ==
  props[CHOOSE i \in 1..Len(props) :
          props[i].key = k /\ \A j \in (i + 1)..Len(props) : props[j].key # k]

FieldOk(f, props) ==
  IF HasKey(props, f.key) THEN Lookup(props, f.key).type = f.type ELSE f.optional

RECURSIVE Strip(_, _)
Strip(schema, props) ==
  IF schema = <<>> THEN <<>>
  ELSE (IF HasKey(props, schema[1].key) THEN <<Lookup(props, schema[1].key)>> ELSE <<>>)
       \o Strip(Tail(schema), props)

\* a schema parse that accepts every value and passes it through as it is
ZodParseAccepts(schema, v) == [ok |-> TRUE, value |-> v, message |-> <<>>]

\* z.object(...).parse: the known fields in shape order (unknown keys are
\* stripped), or a ZodError
ZodParse(schema, v) ==
  IF v.kind = "object" /\ \A i \in 1..Len(schema) : FieldOk(schema[i], v.props)
  THEN [ok |-> TRUE, value |-> JsObject(Strip(schema, v.props)), message |-> <<>>]
  ELSE [ok |-> FALSE, value |-> JsUndefined, message |-> <<"ZodError: invalid arguments">>]

\* ------------------------------------------------------------------------
\* Tool registry (tool.ts) and the tools registered in it (tools/*.ts)
\* ------------------------------------------------------------------------
readFileSchema ==
  <<Field("file_path", "string", FALSE), Field("offset", "number", TRUE),
    Field("limit", "number", TRUE)>>

writeFileSchema ==
  <<Field("file_path", "string", FALSE), Field("content", "string", FALSE),
    Field("create_backup", "boolean", TRUE)>>

\* createReadTool / createWriteTool: name, schema and approval metadata
createReadTool ==
  [name |-> "read_file", parameters |-> readFileSchema, category |-> "read",
   predicate |-> "none"]

createWriteTool ==
  [name |-> "write_file", parameters |-> writeFileSchema, category |-> "write",
   predicate |-> "none"]

\* createTool called by the embedding program: a tool that declares no
\* approval metadata and whose executor does not catch what it throws
customSchema == <<Field("input", "string", FALSE)>>

customTool ==
  [name |-> "custom_tool", parameters |-> customSchema, category |-> "none",
   predicate |-> "none"]

\* new Tools([...]): the map from tool name to tool
ToolNames == {"read_file", "write_file", "custom_tool"}

\* Tools.get for a registered name
ToolsGet(toolName) ==
  CASE toolName = "read_file" -> createReadTool
    [] toolName = "write_file" -> createWriteTool
    [] OTHER -> customTool

\* A ToolResult: llmContent is a string or an array of content parts
TextContent(t) == [isString |-> TRUE, text |-> t, parts |-> <<>>]

PartsContent(ps) == [isString |-> FALSE, text |-> <<>>, parts |-> ps]

ToolResult(c, e) == [llmContent |-> c, isError |-> e]

\* A thrown value: an Error object with a message, or any other value;
\* text is error.message, or String(error) for a value that is no Error
Thrown(isErr, t) == [text |-> t, instanceofError |-> isErr]

ErrorMessage(e) == e.text

\* What an executor does with validated arguments: it returns a ToolResult or
\* throws.
Returns(r) == [kind |-> "return", result |-> r, error |-> Thrown(TRUE, <<>>)]

Throws(e) == [kind |-> "throw", result |-> ToolResult(TextContent(<<>>), FALSE), error |-> e]

\* The outcomes of the executors, for the file a.ts every call of the model
\* names. read_file and write_file catch every error and return it as an
\* error result: read_file returns the numbered lines of the file between two
\* code fences (the token "fence"), or reports
\* that the file is missing or could not be read; write_file reports the
\* write or the error of the write. A result without isError has it FALSE.
\* The executor of the custom tool may throw, and may return content parts
\* instead of a string.
ExecOutcomes(toolName) ==
  CASE toolName = "read_file" ->
         {Returns(ToolResult(TextContent(<<"Contents of ", "a.ts", ":\n", "fence", "\n",
                                           "1|x", "\n", "fence">>), FALSE)),
          Returns(ToolResult(TextContent(<<"Error: File not found: ", "a.ts">>), TRUE)),
          Returns(ToolResult(TextContent(<<"Error reading file: ", "EISDIR">>), TRUE))}
    [] toolName = "write_file" ->
         {Returns(ToolResult(TextContent(<<"Successfully wrote to ", "a.ts">>), FALSE)),
          Returns(ToolResult(TextContent(<<"Error writing file: ", "EACCES">>), TRUE))}
    [] OTHER ->
         {Throws(Thrown(TRUE, <<"connection refused">>)),
          Returns(ToolResult(PartsContent(<<"part">>), FALSE))}

NotFoundResult(toolName) ==
  ToolResult(TextContent(<<"Error: Tool '", toolName, "' not found">>), TRUE)

ExecErrorResult(toolName, message) ==
  ToolResult(TextContent(<<"Error executing tool '", toolName, "': ">> \o message), TRUE)

\* the catch block of Tools.invoke rethrows instead of returning a result
InvokeCatchRethrows(toolName, e, executed) ==
  [result |-> ToolResult(TextContent(<<>>), FALSE),
   error |-> e,
   executed |-> executed,
   rejected |-> TRUE]

\* the catch block of Tools.invoke: an error result carrying the message of
\* whatever was thrown inside the try block
InvokeCatch(toolName, e, executed) ==
  [result |-> ExecErrorResult(toolName, ErrorMessage(e)),
   error |-> Thrown(TRUE, <<>>),
   executed |-> executed,
   rejected |-> FALSE]

\* The try block of Tools.invoke once JSON.parse and the schema have produced
\* parsedArgs and validatedArgs: what either threw goes to the catch block,
\* and so does what the executor throws; otherwise the executor's result is
\* returned
InvokeTry(toolName, toolCallId, parsedArgs, validatedArgs, o) ==
  LET execution == <<[toolName |-> toolName,
                      toolCallId |-> toolCallId,
                      params |-> validatedArgs.value]>>
  IN IF ~parsedArgs.ok
     THEN InvokeCatch(toolName, Thrown(TRUE, parsedArgs.message), <<>>)
     ELSE IF ~validatedArgs.ok
     THEN InvokeCatch(toolName, Thrown(TRUE, validatedArgs.message), <<>>)
     ELSE IF o.kind = "throw"
     THEN InvokeCatch(toolName, o.error, execution)
     ELSE [result |-> o.result,
           error |-> Thrown(TRUE, <<>>),
           executed |-> execution,
           rejected |-> FALSE]

\* Tools.invoke(toolName, args, toolCallId) when the executor, if it runs, behaves
\* as outcome o: the ToolResult the promise resolves to, or a rejection, and the
\* executor invocations made (validated arguments and call id). parsedArgs and
\* validatedArgs are each computed once.
Invoke(toolName, args, toolCallId, o) ==
  IF toolName \notin ToolNames
  THEN [result |-> NotFoundResult(toolName),
        error |-> Thrown(TRUE, <<>>),
        executed |-> <<>>,
        rejected |-> FALSE]
  ELSE CHOOSE settled \in
         UNION {{InvokeTry(toolName, toolCallId, parsedArgs, validatedArgs, o) :
                   validatedArgs \in {ZodParse(ToolsGet(toolName).parameters,
                                               parsedArgs.value)}} :
                parsedArgs \in {JSONParse(args)}} : TRUE

\* ------------------------------------------------------------------------
\* Approval system (security/approval.ts)
\* ------------------------------------------------------------------------
ApprovalModes == {"strict", "default", "auto_edit", "yolo"}

\* isHighRiskCommand (tools/bash.ts): the command holds one of
\* DANGEROUS_COMMANDS or matches one of HIGH_RISK_PATTERNS; a command is a
\* sequence of tokens and \s+ is one token of white space
isHighRiskCommand(command) ==
  LET DANGEROUS_COMMANDS ==
        {"rm -rf", "format", "mkfs", ":(){:|:&};:", "dd if=", "mv /* ", "> /dev/sda"}
      HIGH_RISK_PATTERNS ==
        {<<"rm", " ", "-rf", " ", "/">>, <<"rm", " ", "-rf", " ", "~">>,
         <<"sudo", " ", "rm">>, <<"chmod", " ", "-R", " ", "777">>,
         <<"dd", " ", "if=">>, <<"mkfs">>, <<":(){">>}
  IN \/ \E dangerous \in DANGEROUS_COMMANDS : Includes(command, dangerous)
     \/ \E pattern \in HIGH_RISK_PATTERNS :
          \E i \in 1..Len(command) :
            /\ i + Len(pattern) - 1 <= Len(command)
            /\ SubSeq(command, i, i + Len(pattern) - 1) = pattern

\* createBashTool: name, schema and approval metadata; its predicate is an
\* async function
createBashTool ==
  [name |-> "run_command",
   parameters |-> <<Field("command", "string", FALSE), Field("timeout", "number", TRUE),
                    Field("capture_output", "boolean", TRUE)>>,
   category |-> "command", predicate |-> "async"]

\* createTool called by the embedding program with approval metadata: a
\* category, or "none" for no metadata at all, and a predicate that is absent
\* ("none"), a function ("sync") or an async function ("async")
createTool(name, category, predicate) ==
  [name |-> name, parameters |-> <<Field("confirm", "boolean", TRUE)>>,
   category |-> category, predicate |-> predicate]

\* what a boolean-typed call evaluates to: a boolean, or a Promise that
\* resolves to one
Boolean(b) == [value |-> b, promise |-> FALSE]

\* tool.approval.needsApproval(context): run_command decides by the command,
\* the tools of the embedding program by the parameter confirm
PredicateReturns(tool, params) ==
  [value |-> IF tool.name = "run_command"
             THEN isHighRiskCommand(Lookup(params.props, "command").val)
             ELSE /\ HasKey(params.props, "confirm")
                  /\ Lookup(params.props, "confirm").val = "true",
   promise |-> tool.predicate = "async"]

\* tool.approval?.category !== 'read' read as: the category is write or command
NotReadListsCategories(tool) == tool.category \in {"write", "command"}

\* tool.approval?.category !== 'read'
NotRead(tool) == tool.category # "read"

\* the DEFAULT branch with a fallback that requires approval for every
\* category but read
DefaultDecisionAllButRead(tool, params) ==
  IF tool.category = "read" THEN Boolean(FALSE)
  ELSE IF tool.category # "none" /\ tool.predicate # "none"
  THEN PredicateReturns(tool, params)
  ELSE Boolean(tool.category # "read")

\* the DEFAULT branch with a fallback that requires approval for the write
\* category only
DefaultDecisionWriteOnly(tool, params) ==
  IF tool.category = "read" THEN Boolean(FALSE)
  ELSE IF tool.category # "none" /\ tool.predicate # "none"
  THEN PredicateReturns(tool, params)
  ELSE Boolean(tool.category = "write")

\* the DEFAULT (and default:) branch of needsApproval
DefaultDecision(tool, params) ==
  IF tool.category = "read" THEN Boolean(FALSE)
  ELSE IF tool.category # "none" /\ tool.predicate # "none"
  THEN PredicateReturns(tool, params)
  ELSE Boolean(tool.category = "write" \/ tool.category = "command")

\* needsApproval with the YOLO case falling through to the DEFAULT branch
needsApprovalYoloFallsThrough(mode, tool, params) ==
  CASE mode = "auto_edit" -> Boolean(NotRead(tool))
    [] mode = "strict" -> Boolean(NotRead(tool))
    [] OTHER -> DefaultDecision(tool, params)

\* ApprovalSystem.needsApproval: what the call evaluates to
needsApproval(mode, tool, params) ==
  CASE mode = "yolo" -> Boolean(FALSE)
    [] mode = "auto_edit" -> Boolean(NotRead(tool))
    [] mode = "strict" -> Boolean(NotRead(tool))
    [] OTHER -> DefaultDecision(tool, params)

\* ApprovalSystem.requestApproval: the decision it resolves to
requestApproval(mode, tool, params) == TRUE

\* ------------------------------------------------------------------------
\* Mode selector (reasoning/mode-selector.ts)
\* ------------------------------------------------------------------------
ReasoningModes == {"react", "plan_solve", "reflection"}

NoPreference == "none"

\* String.prototype.toLowerCase on the words of the model
ToLowerCase(w) ==
  CASE w = "Find" -> "find"
    [] w = "Refactor" -> "refactor"
    [] w = "Review" -> "review"
    [] OTHER -> w

LowerTask(t) == [i \in 1..Len(t) |-> ToLowerCase(t[i])]

simpleKeywords == {"read", "show", "display", "what is", "explain", "find"}

refactorKeywords ==
  {"refactor", "restructure", "reorganize", "multiple files", "entire codebase"}

reviewKeywords == {"review", "improve", "optimize", "enhance", "better"}

isSimpleQuery(t) == \E k \in simpleKeywords : Includes(LowerTask(t), k)

isMultiFileRefactoring(t) == \E k \in refactorKeywords : Includes(LowerTask(t), k)

\* isCodeReview looking in the task as written, not in its lower-case form
isCodeReviewCaseSensitive(t) == \E k \in reviewKeywords : Includes(t, k)

isCodeReview(t) == \E k \in reviewKeywords : Includes(LowerTask(t), k)

\* selectMode with the preference consulted after the simple-query test
selectModePreferenceSecond(t, userPreference) ==
  IF isSimpleQuery(t) THEN "react"
  ELSE IF userPreference # NoPreference THEN userPreference
  ELSE IF isMultiFileRefactoring(t) THEN "plan_solve"
  ELSE IF isCodeReview(t) THEN "reflection"
  ELSE "react"

selectMode(t, userPreference) ==
  IF userPreference # NoPreference THEN userPreference
  ELSE IF isSimpleQuery(t) THEN "react"
  ELSE IF isMultiFileRefactoring(t) THEN "plan_solve"
  ELSE IF isCodeReview(t) THEN "reflection"
  ELSE "react"

\* ------------------------------------------------------------------------
\* Inputs of the reasoning loop
\* ------------------------------------------------------------------------
Tasks ==
  {<<"Find", " the config file">>,
   <<"Refactor", " the module and ", "improve", " naming">>}

\* config.reasoningMode of the facade: unset, or a mode
Preferences == {NoPreference, "reflection"}

\* Texts a model response can carry: none, a thought, an answer after the
\* marker with text before it and blanks around it, and two markers
Texts ==
  {<<>>,
   <<"I will look at the file">>,
   <<"All done. ", Marker, " ", "the answer", " ">>,
   <<Marker, "first", Marker, "second">>}

ToolCall(id, name, args) == [toolName |-> name, toolCallId |-> id, args |-> args]

ReadCall ==
  ToolCall("call_1", "read_file",
           JsObject(<<Prop("verbose", "boolean", "true"),
                      Prop("limit", "number", "10"),
                      Prop("file_path", "string", "a.ts")>>))

WriteCall ==
  ToolCall("call_2", "write_file",
           JsObject(<<Prop("file_path", "string", "a.ts"),
                      Prop("content", "string", "x")>>))

CustomCall ==
  ToolCall("call_6", "custom_tool", JsObject(<<Prop("input", "string", "x")>>))

UnknownToolCall == ToolCall("call_3", "delete_file", JsObject(<<>>))

InvalidArgsCall ==
  ToolCall("call_4", "read_file", JsObject(<<Prop("file_path", "number", "1")>>))

NoArgsCall == ToolCall("call_5", "write_file", JsUndefined)

\* The tool-call lists a model response can carry
ToolCallLists ==
  {<<>>, <<ReadCall, CustomCall, WriteCall>>,
   <<UnknownToolCall, InvalidArgsCall, NoArgsCall>>}

Responses == [text : Texts, toolCalls : ToolCallLists]

\* Errors generateText can throw: a network error, another Error, and a
\* thrown value that is no Error object
ModelErrors ==
  {Thrown(TRUE, <<"SocketError", ": ", "other side closed">>),
   Thrown(TRUE, <<"401 Unauthorized">>),
   Thrown(FALSE, <<"SocketError">>)}

\* Errors model creation (_mCreator) can throw
CreatorErrors == {Thrown(TRUE, <<"API key not found">>)}

\* ------------------------------------------------------------------------
\* State
\* ------------------------------------------------------------------------
VARIABLES
  pc,           \* where the run is: idle, creating, step, model, backoff, exhausted,
                \* tools, invoking, done
  entry,        \* who started the run: none, react (ReActAgent.run), agent (Agent.run)
  task,         \* the task text
  mode,         \* the reasoning mode the facade selected
  approvalMode, \* ApprovalSystem.mode
  maxSteps,     \* ReActAgent.maxSteps
  maxRetries,   \* ReActAgent.maxRetries
  step,         \* the loop variable of run (0-based)
  attempt,      \* the loop variable of generateTextWithRetry (0-based)
  stepCalls,    \* generateText calls issued in the current step
  modelCalls,   \* generateText calls issued in the run
  delays,       \* backoff delays waited in the current step
  toolCalls,    \* the tool calls of the response being processed
  callIdx,      \* index of the next tool call to execute
  messages,     \* the conversation transcript of the run
  history,      \* ReActAgent.history, the reasoning trace
  events,       \* callback notifications, executor and approval calls, in order
  caught,       \* the error the catch block of generateTextWithRetry caught last
  responses,    \* the responses generateText returned in the run, in order
  outcome,      \* how the run ended: pending, returned, thrown (by ReActAgent.run)
                \* or notCreated (the model creator threw)
  invocations,  \* the calls of Tools.invoke that have settled, and what they settled to
  agentHistory, \* Agent.history
  envelope,     \* the AgentResult Agent.run resolved to
  items,        \* ContextManager.items
  maxTokens,    \* ContextManager.maxTokens
  clock,        \* the time new Date() reads, in milliseconds
  contextCalls, \* calls made on the ContextManager so far
  lastCall,     \* the last call made on the ContextManager and what it returned
  decisions,    \* the calls of setMode and needsApproval on the ApprovalSystem, in order
  selected,     \* the last call of ModeSelector.selectMode and what it returned
  overlap,      \* one ReActAgent on which several run() calls are in progress
  conversation, \* a ConversationHistory and the calls made on it
  counter,      \* a TokenCounter and the calls made on it
  inflight      \* the direct calls of Tools.invoke that await their executor

vars ==
  <<pc, entry, task, mode, approvalMode, maxSteps, maxRetries, step, attempt,
    stepCalls, modelCalls, delays, caught, responses, toolCalls, callIdx, messages,
    history, events, outcome, invocations, agentHistory, envelope, items, maxTokens,
    clock, contextCalls, lastCall, decisions, selected, overlap, conversation, counter,
    inflight>>

rest == <<overlap, conversation, counter, inflight>>

loop ==
  <<pc, entry, task, mode, approvalMode, maxSteps, maxRetries, step, attempt,
    stepCalls, modelCalls, delays, caught, responses, toolCalls, callIdx, messages,
    history, events, outcome, invocations, agentHistory, envelope>>

context == <<items, maxTokens, clock, contextCalls, lastCall>>

config == <<task, mode, approvalMode, maxSteps, maxRetries, invocations>>

retry == <<attempt, stepCalls, modelCalls, delays, caught>>

transcript == <<messages, history, events, responses>>

\* ------------------------------------------------------------------------
\* Records of the run
\* ------------------------------------------------------------------------
StringMessage(role, text) ==
  [role |-> role, content |-> [text |-> text, parts |-> <<>>, isArray |-> FALSE]]

ArrayMessage(role, parts) ==
  [role |-> role, content |-> [text |-> <<>>, parts |-> parts, isArray |-> TRUE]]

TextPart(text) ==
  [type |-> "text",
   toolName |-> "",
   text |-> text,
   toolCallId |-> "",
   args |-> JsUndefined]

ToolCallPart(tc) ==
  [type |-> "tool-call",
   toolName |-> tc.toolName,
   text |-> <<>>,
   toolCallId |-> tc.toolCallId,
   args |-> tc.args]

ToolResultPartWithoutId(tc, observation) ==
  [type |-> "tool-result",
   toolName |-> tc.toolName,
   text |-> observation,
   toolCallId |-> "",
   args |-> JsUndefined]

ToolResultPart(tc, observation) ==
  [type |-> "tool-result",
   toolName |-> tc.toolName,
   text |-> observation,
   toolCallId |-> tc.toolCallId,
   args |-> JsUndefined]

RECURSIVE ToolCallParts(_)
ToolCallParts(tcs) ==
  IF tcs = <<>> THEN <<>> ELSE <<ToolCallPart(tcs[1])>> \o ToolCallParts(Tail(tcs))

InitialMessage(t) ==
  StringMessage("user", <<"SYSTEM PROMPT", "Task: ">> \o t \o <<"Solve this step by step.">>)

\* A ReasoningStep; fields names the optional fields that are present
ThoughtStep(thought) ==
  [observation |-> <<>>, thought |-> thought, fields |-> {"thought"}, action |-> <<>>]

FinalStep(finalAnswer) ==
  [observation |-> finalAnswer,
   thought |-> <<"Task completed">>,
   fields |-> {"thought", "observation"},
   action |-> <<>>]

ActionStep(action, observation) ==
  [observation |-> observation,
   thought |-> <<>>,
   fields |-> {"action", "observation"},
   action |-> action]

Event(type, k, tc, payload) ==
  [type |-> type,
   toolName |-> tc.toolName,
   toolCallId |-> tc.toolCallId,
   args |-> tc.args,
   step |-> k,
   payload |-> payload]

NoCall == ToolCall("", "", JsUndefined)

Pending == [kind |-> "pending", value |-> <<>>]

Returned(v) == [kind |-> "returned", value |-> v]

ThrownOut(m) == [kind |-> "thrown", value |-> m]

NotCreated(m) == [kind |-> "notCreated", value |-> m]

NothingCaught == [error |-> Thrown(TRUE, <<>>), present |-> FALSE]

Caught(e) == [error |-> e, present |-> TRUE]

NoEnvelope ==
  [result |-> <<>>,
   resolved |-> FALSE,
   success |-> FALSE,
   turnsCount |-> 0,
   toolCallsCount |-> 0]

StepErrorZeroIndexed(k, message) == <<"Error in step ", ToString(k), ": ">> \o message

\* the error run() throws from its catch block
StepError(k, message) == <<"Error in step ", ToString(k + 1), ": ">> \o message

isNetworkErrorAlways(error) == TRUE

\* generateTextWithRetry: the test of the catch block
isNetworkError(error) ==
  /\ error.instanceofError
  /\ \/ Includes(error.text, "Failed to process successful response")
     \/ Includes(error.text, "SocketError")
     \/ Includes(error.text, "other side closed")

isLastAttemptEarly(a, retries) == a = retries - 2

isLastAttempt(a, retries) == a = retries - 1

RECURSIVE Pow2(_)
Pow2(n) == IF n = 0 THEN 1 ELSE 2 * Pow2(n - 1)

\* the delay with the exponent counted from 1
DelayFromOne(a) == Pow2(a + 1) * BackoffBase

Delay(a) == Pow2(a) * BackoffBase

\* typeof llmContent === 'string' ? llmContent : JSON.stringify(llmContent)
Observation(result) ==
  IF result.llmContent.isString THEN result.llmContent.text
  ELSE <<"[">> \o result.llmContent.parts \o <<"]">>

ActionText(tc) == <<tc.toolName, "(">> \o JSONStringify(tc.args) \o <<")">>

\* ------------------------------------------------------------------------
\* ContextManager (context.ts)
\* ------------------------------------------------------------------------
MaxCalls == 4

MaxCeiling == 4

ContextPriority ==
  [CRITICAL |-> 100, HIGH |-> 80, MEDIUM |-> 60, LOW |-> 40, VERY_LOW |-> 20]

\* a text of n characters c
Chars(c, n) == [i \in 1..n |-> c]

\* Math.ceil(text.length / 4)
estimateTokens(text) == (Len(text) + 3) \div 4

\* the object addItem and evictAndAdd push; id stands for the identity of the
\* object: its rank among the calls made on the manager
ContextItem(content, priority, timestamp, id) ==
  [id |-> id,
   content |-> content,
   priority |-> priority,
   timestamp |-> timestamp,
   tokens |-> estimateTokens(content)]

\* this.items.reduce((sum, item) => sum + 1, 0): the items counted, not weighed
RECURSIVE getCurrentTokensCounts(_)
getCurrentTokensCounts(its) ==
  IF its = <<>> THEN 0 ELSE getCurrentTokensCounts(SubSeq(its, 2, Len(its))) + 1

RECURSIVE getCurrentTokens(_)
getCurrentTokens(its) ==
  IF its = <<>> THEN 0 ELSE its[1].tokens + getCurrentTokens(SubSeq(its, 2, Len(its)))

\* this.items.map((item) => item.content).join('\n\n')
RECURSIVE getContext(_)
getContext(its) ==
  IF its = <<>> THEN <<>>
  ELSE IF Len(its) = 1 THEN its[1].content
  ELSE getContext(SubSeq(its, 1, Len(its) - 1)) \o <<"\n", "\n">> \o its[Len(its)].content

ByPriority(a, b) == a.priority - b.priority

ByPriorityThenRecency(a, b) ==
  IF a.priority # b.priority THEN b.priority - a.priority ELSE b.timestamp - a.timestamp

\* the comparator handed to sort: that of evictAndAdd or that of compress
Compare(comparator, a, b) ==
  IF comparator = "evictAndAdd" THEN ByPriority(a, b) ELSE ByPriorityThenRecency(a, b)

\* Array.prototype.sort is stable: an element goes before the first one the
\* comparator orders after it, behind every element it compares equal to
Insert(sorted, x, comparator) ==
  LET after == {i \in 1..Len(sorted) : Compare(comparator, x, sorted[i]) < 0}
      k == IF after = {} THEN Len(sorted) + 1
           ELSE CHOOSE i \in after : \A j \in after : i <= j
  IN SubSeq(sorted, 1, k - 1) \o <<x>> \o SubSeq(sorted, k, Len(sorted))

\* this.items.sort((a, b) => a.priority - b.priority)
RECURSIVE SortAscending(_)
SortAscending(its) ==
  IF its = <<>> THEN <<>>
  ELSE Insert(SortAscending(SubSeq(its, 1, Len(its) - 1)), its[Len(its)], "evictAndAdd")

\* the sort of compress: priority descending, then timestamp descending
RECURSIVE SortDescending(_)
SortDescending(its) ==
  IF its = <<>> THEN <<>>
  ELSE Insert(SortDescending(SubSeq(its, 1, Len(its) - 1)), its[Len(its)], "compress")

\* the condition of evictAndAdd that leaves the incoming item out of the total
FitsWithoutIncoming(its, freedTokens, tokens, max) ==
  getCurrentTokens(its) - freedTokens <= max

Fits(its, freedTokens, tokens, max) == getCurrentTokens(its) - freedTokens + tokens <= max

\* the condition of the scan of evictAndAdd with <= for <
EvictableOrEqual(candidate, priority) == candidate.priority <= priority

Evictable(candidate, priority) == candidate.priority < priority

\* the scan of evictAndAdd from index i on (1-based)
RECURSIVE Scan(_, _, _, _, _, _)
Scan(its, item, max, i, freedTokens, toRemove) ==
  IF i > Len(its) THEN [freedTokens |-> freedTokens, toRemove |-> toRemove]
  ELSE IF Evictable(its[i], item.priority)
  THEN IF Fits(its, freedTokens + its[i].tokens, item.tokens, max)
       THEN [freedTokens |-> freedTokens + its[i].tokens,
             toRemove |-> Append(toRemove, i)]
       ELSE Scan(its, item, max, i + 1, freedTokens + its[i].tokens, Append(toRemove, i))
  ELSE Scan(its, item, max, i + 1, freedTokens, toRemove)

\* this.items.splice(toRemove[i], 1) for i from the last index down to the first
RECURSIVE Splice(_, _)
Splice(its, toRemove) ==
  IF toRemove = <<>> THEN its
  ELSE LET at == toRemove[Len(toRemove)]
       IN Splice(SubSeq(its, 1, at - 1) \o SubSeq(its, at + 1, Len(its)),
                 SubSeq(toRemove, 1, Len(toRemove) - 1))

\* evictAndAdd: the items it leaves and the value it returns
evictAndAdd(its, item, max) ==
  LET sorted == SortAscending(its)
      scan == Scan(sorted, item, max, 1, 0, <<>>)
  IN IF Fits(sorted, scan.freedTokens, item.tokens, max)
     THEN [value |-> TRUE, items |-> Append(Splice(sorted, scan.toRemove), item)]
     ELSE [value |-> FALSE, items |-> sorted]

\* addItem: the items it leaves and the value it returns
addItem(its, item, max) ==
  IF getCurrentTokens(its) + item.tokens <= max
  THEN [value |-> TRUE, items |-> Append(its, item)]
  ELSE evictAndAdd(its, item, max)

\* Math.floor(this.maxTokens * 0.7); the product in double precision is within
\* 1e-15 of 7 * max / 10 and no integer lies between the two for max < 90
targetTokens(max) == (7 * max) \div 10

\* the loop of compress from index i on
RECURSIVE Keep(_, _, _, _, _)
Keep(its, target, i, currentTokens, keptItems) ==
  IF i > Len(its) THEN keptItems
  ELSE IF currentTokens + its[i].tokens <= target
  THEN Keep(its, target, i + 1, currentTokens + its[i].tokens, Append(keptItems, its[i]))
  ELSE Keep(its, target, i + 1, currentTokens, keptItems)

\* compress: the items it leaves
compress(its, max) == Keep(SortDescending(its), targetTokens(max), 1, 0, <<>>)

NoContextCall == [value |-> FALSE, content |-> <<>>, priority |-> 0, op |-> "none"]

ContextCall(op, content, priority, value) ==
  [value |-> value, content |-> content, priority |-> priority, op |-> op]

\* new ContextManager(max)
ContextManagerNew(max) ==
  /\ maxTokens = max
  /\ items = <<>>
  /\ clock = 0
  /\ contextCalls = 0
  /\ lastCall = NoContextCall

\* ------------------------------------------------------------------------
\* Init
\* ------------------------------------------------------------------------
\* ------------------------------------------------------------------------
\* ConversationHistory (memory/short-term.ts)
\* ------------------------------------------------------------------------
\* Array.prototype.slice(start, end) on integer arguments, 0-based as in the
\* source: a negative argument counts from the end, both are clamped to the
\* array
slice(s, start, end) ==
  LET len == Len(s)
      Relative(k) == IF k < 0 THEN (IF len + k < 0 THEN 0 ELSE len + k)
                     ELSE (IF k > len THEN len ELSE k)
  IN SubSeq(s, Relative(start) + 1, Relative(end))

\* slice(0, -start): the elements before the last start ones
sliceHead(s, start) == slice(s, 0, -start)

\* slice(start) without an end
sliceFrom(s, start) == slice(s, start, Len(s))

\* the integer slice makes of length / 2
Half(length) == length \div 2

\* { ...message, uuid, timestamp } and the parentUuid it was given, if any
NormalizedMessage(message, uuid, timestamp, parentUuid) ==
  [role |-> message.role,
   content |-> message.content,
   timestamp |-> timestamp,
   uuid |-> uuid,
   parentUuid |-> parentUuid]

\* the line of summarizeMessages for one message; <<>> is the empty string
SummaryLine(m) ==
  IF ~m.content.isArray THEN <<m.role, ": ">> \o m.content.text
  ELSE LET texts == SelectSeq(m.content.parts, LAMBDA c : c.type = "text")
       IN IF texts = <<>> THEN <<>> ELSE <<m.role, ": ">> \o texts[1].text

\* .map(line).filter(Boolean).join('\n')
RECURSIVE SummaryLines(_)
SummaryLines(msgs) ==
  IF msgs = <<>> THEN <<>>
  ELSE LET first == SummaryLine(msgs[1])
           others == SummaryLines(Tail(msgs))
       IN IF first = <<>> THEN others
          ELSE IF others = <<>> THEN first
          ELSE first \o <<"\n">> \o others

summarizeMessages(msgs, uuid, timestamp) ==
  NormalizedMessage(
    ArrayMessage("system",
                 <<TextPart(<<"Previous conversation summary:\n">> \o SummaryLines(msgs))>>),
    uuid, timestamp, "null")

\* a call made on the history: the messages held when it was made (before),
\* those held when it resumed after its await (during; the same for a call
\* that does not await) and the value it returned
HistoryCall(op, n, before, during, returned) ==
  [n |-> n, op |-> op, before |-> before, during |-> during, returned |-> returned]

NoHistoryCall == HistoryCall("none", 0, <<>>, <<>>, <<>>)

\* new ConversationHistory(maxTurns). uuids counts the calls of randomUUID, now
\* is the time new Date() reads, pending holds, earliest first, what the calls
\* of compress at their await will resume with, added the messages given to
\* addMessage since the last clear
ConversationHistoryNew(maxTurns) ==
  conversation = [messages |-> <<>>,
                  lastCall |-> NoHistoryCall,
                  maxTurns |-> maxTurns,
                  uuids |-> 0,
                  now |-> 0,
                  pending |-> <<>>,
                  added |-> <<>>,
                  calls |-> 0]

\* ------------------------------------------------------------------------
\* TokenCounter (utils/token-counter.ts)
\* ------------------------------------------------------------------------
\* this.encoding.encode(text).length: a text is the sequence of its tokens
count(text) == Len(text)

\* an entry of this.contents; id tells entries with equal fields apart
ContentEntry(content, priority, id) ==
  [id |-> id, content |-> content, priority |-> priority, tokens |-> count(content)]

\* the scan of evictLowPriorityContent from index i on (1-based): the tokens
\* freed and the number of entries marked, which are the first ones
RECURSIVE EvictScan(_, _, _, _, _)
EvictScan(c, sorted, tokensNeeded, i, freedTokens) ==
  IF i > Len(sorted) \/ c.currentUsage - freedTokens + tokensNeeded <= c.maxTokens
  THEN [freedTokens |-> freedTokens, marked |-> i - 1]
  ELSE EvictScan(c, sorted, tokensNeeded, i + 1, freedTokens + sorted[i].tokens)

\* evictLowPriorityContent(tokensNeeded): the value it returns and the fields
\* it leaves; the priority of the incoming content is not among its arguments
evictLowPriorityContent(c, tokensNeeded) ==
  LET sorted == SortAscending(c.contents)
      scan == EvictScan(c, sorted, tokensNeeded, 1, 0)
  IN IF c.currentUsage - scan.freedTokens + tokensNeeded <= c.maxTokens
     THEN [value |-> TRUE,
           currentUsage |-> c.currentUsage - scan.freedTokens,
           contents |-> SubSeq(sorted, scan.marked + 1, Len(sorted))]
     ELSE [value |-> FALSE, currentUsage |-> c.currentUsage, contents |-> sorted]

\* addContent(content, priority): the value it returns and the fields it leaves
addContent(c, entry_) ==
  IF c.currentUsage + entry_.tokens <= c.maxTokens
  THEN [value |-> TRUE,
        currentUsage |-> c.currentUsage + entry_.tokens,
        contents |-> Append(c.contents, entry_)]
  ELSE LET evicted == evictLowPriorityContent(c, entry_.tokens)
       IN IF evicted.value
          THEN [value |-> TRUE,
                currentUsage |-> evicted.currentUsage + entry_.tokens,
                contents |-> Append(evicted.contents, entry_)]
          ELSE evicted

getCurrentUsage(c) == c.currentUsage

\* a call made on the counter: what it was given, the contents held before it
\* and the value it returned
CounterCall(op, content, priority, before, value) ==
  [value |-> value,
   content |-> content,
   priority |-> priority,
   op |-> op,
   before |-> before]

\* new TokenCounter(model, max); calls counts the calls made on it
TokenCounterNew(max) ==
  counter = [maxTokens |-> max,
             lastCall |-> CounterCall("none", <<>>, 0, <<>>, FALSE),
             calls |-> 0,
             currentUsage |-> 0,
             contents |-> <<>>]

\* ------------------------------------------------------------------------
\* Several run() calls on one ReActAgent (reasoning/react.ts)
\* ------------------------------------------------------------------------
MaxRuns == 2

MaxPushes == 2

\* a new ReActAgent: this.history = [] and no call of run made. held[k] is the
\* number of records call k has pushed
NoRuns ==
  [history |-> <<>>,
   status |-> [k \in 1..MaxRuns |-> "new"],
   held |-> [k \in 1..MaxRuns |-> 0]]

\* the record call k pushes as its n-th
TraceRecord(k, n) == [run |-> k, index |-> n]

Idle ==
  /\ overlap = NoRuns
  /\ inflight = <<>>
  /\ pc = "idle"
  /\ entry = "none"
  /\ task = <<>>
  /\ mode = NoPreference
  /\ approvalMode = "default"
  /\ maxSteps = 0
  /\ maxRetries = 0
  /\ step = 0
  /\ attempt = 0
  /\ stepCalls = 0
  /\ modelCalls = 0
  /\ delays = <<>>
  /\ caught = NothingCaught
  /\ responses = <<>>
  /\ invocations = <<>>
  /\ toolCalls = <<>>
  /\ callIdx = 0
  /\ messages = <<>>
  /\ history = <<>>
  /\ events = <<>>
  /\ outcome = Pending
  /\ agentHistory = <<>>
  /\ envelope = NoEnvelope
  /\ decisions = <<>>
  /\ selected = [userPreference |-> NoPreference, task |-> <<>>, returned |-> NoPreference]

\* no run has started; no ContextManager takes part in a run
Init == Idle /\ ContextManagerNew(0) /\ ConversationHistoryNew(1) /\ TokenCounterNew(0)

\* ------------------------------------------------------------------------
\* ReActAgent.run (reasoning/react.ts)
\* ------------------------------------------------------------------------
\* run(task) up to the loop: the trace is reset, the transcript starts with
\* the prompt
BeginRun(t) ==
  /\ history' = <<>>
  /\ messages' = <<InitialMessage(t)>>
  /\ step' = 0
  /\ pc' = "step"

\* new ReActAgent(llm, tools, ms, mr, callbacks).run(t)
ReActRun(t, ms, mr) ==
  /\ pc = "idle"
  /\ entry' = "react"
  /\ task' = t
  /\ maxSteps' = ms
  /\ maxRetries' = mr
  /\ BeginRun(t)
  /\ UNCHANGED <<mode, approvalMode, invocations, retry, toolCalls, callIdx, events,
                 responses, outcome, agentHistory, envelope>>
  /\ UNCHANGED <<context, decisions, selected, rest>>

\* the loop test of run
LoopContinuesInclusive(s, ms) == s <= ms

LoopContinues(s, ms) == s < ms

\* the catch block of run: the error leaves run wrapped with the step number
FailStep(message) ==
  /\ outcome' = ThrownOut(StepError(step, message))
  /\ pc' = "done"

\* The head of the loop: the step limit, the step notification and the call
\* of generateTextWithRetry, which issues its first attempt or, with no attempt
\* to make, throws; run() awaits it either way
StepBegin ==
  /\ pc = "step"
  /\ IF LoopContinues(step, maxSteps)
     THEN /\ events' = Append(events, Event("onStep", step + 1, NoCall, <<>>))
          /\ attempt' = 0
          /\ delays' = <<>>
          /\ caught' = NothingCaught
          /\ IF 0 < maxRetries
             THEN /\ stepCalls' = 1
                  /\ modelCalls' = modelCalls + 1
                  /\ pc' = "model"
                  /\ UNCHANGED outcome
             ELSE /\ stepCalls' = 0
                  /\ pc' = "exhausted"
                  /\ UNCHANGED <<modelCalls, outcome>>
     ELSE /\ outcome' = Returned(Sentinel)
          /\ pc' = "done"
          /\ UNCHANGED <<events, retry>>
  /\ UNCHANGED <<entry, config, step, toolCalls, callIdx, messages, history, responses,
                 agentHistory, envelope>>
  /\ UNCHANGED <<context, decisions, selected, rest>>

\* generateText throws error e
ModelThrows(e) ==
  /\ pc = "model"
  /\ caught' = Caught(e)
  /\ IF isNetworkError(e) /\ ~isLastAttempt(attempt, maxRetries)
     THEN /\ delays' = Append(delays, Delay(attempt))
          /\ pc' = "backoff"
          /\ UNCHANGED outcome
     ELSE /\ FailStep(ErrorMessage(e))
          /\ UNCHANGED delays
  /\ UNCHANGED <<entry, config, step, attempt, stepCalls, modelCalls, toolCalls,
                 callIdx, transcript, agentHistory, envelope>>
  /\ UNCHANGED <<context, decisions, selected, rest>>

\* the backoff timer fires: the next attempt
BackoffElapsed ==
  /\ pc = "backoff"
  /\ attempt' = attempt + 1
  /\ IF attempt + 1 < maxRetries
     THEN /\ stepCalls' = stepCalls + 1
          /\ modelCalls' = modelCalls + 1
          /\ pc' = "model"
          /\ UNCHANGED outcome
     ELSE /\ pc' = "exhausted"
          /\ UNCHANGED <<stepCalls, modelCalls, outcome>>
  /\ UNCHANGED <<entry, config, step, delays, caught, toolCalls, callIdx, transcript,
                 agentHistory, envelope>>
  /\ UNCHANGED <<context, decisions, selected, rest>>

\* run() resumes from its await of generateTextWithRetry, which left its loop
\* with no attempt to make and threw
RetriesExhausted ==
  /\ pc = "exhausted"
  /\ FailStep(<<"Max retries exceeded">>)
  /\ UNCHANGED <<entry, config, step, retry, toolCalls, callIdx, transcript, agentHistory,
                 envelope>>
  /\ UNCHANGED <<context, decisions, selected, rest>>

\* text.split('FINAL ANSWER:')[1].trim()
FinalAnswer(text) == Trim(Split(text, Marker)[2])

\* the test for the final answer, made before any tool call is looked at
IsFinalWithoutToolCalls(r) ==
  r.text # <<>> /\ Includes(r.text, Marker) /\ r.toolCalls = <<>>

IsFinal(r) == r.text # <<>> /\ Includes(r.text, Marker)

AssistantContent(text, tcs) ==
  (IF text # <<>> THEN <<TextPart(text)>> ELSE <<>>) \o ToolCallParts(tcs)

\* generateText returns response r: the rest of the step up to the tool calls
ModelReturns(r) ==
  /\ pc = "model"
  /\ responses' = Append(responses, r)
  /\ IF r.text = <<>> /\ r.toolCalls = <<>>
     THEN /\ FailStep(<<"No text in response and no tool calls">>)
          /\ UNCHANGED <<step, toolCalls, callIdx, messages, history, events>>
     ELSE IF IsFinal(r)
     THEN /\ events' = Append(events, Event("onThought", step + 1, NoCall,
                                            <<"Task completed: ">> \o FinalAnswer(r.text)))
          /\ history' = Append(history, FinalStep(FinalAnswer(r.text)))
          /\ outcome' = Returned(FinalAnswer(r.text))
          /\ pc' = "done"
          /\ UNCHANGED <<step, toolCalls, callIdx, messages>>
     ELSE /\ IF r.text # <<>>
             THEN /\ events' = Append(events, Event("onThought", step + 1, NoCall, r.text))
                  /\ history' = Append(history, ThoughtStep(r.text))
             ELSE UNCHANGED <<events, history>>
          /\ IF r.toolCalls # <<>>
             THEN /\ messages' =
                       Append(messages,
                              ArrayMessage("assistant", AssistantContent(r.text, r.toolCalls)))
                  /\ toolCalls' = r.toolCalls
                  /\ callIdx' = 1
                  /\ pc' = "tools"
                  /\ UNCHANGED step
             ELSE /\ messages' =
                       messages \o <<StringMessage("assistant", r.text),
                                     StringMessage("user", ContinuationPrompt)>>
                  /\ step' = step + 1
                  /\ pc' = "step"
                  /\ UNCHANGED <<toolCalls, callIdx>>
          /\ UNCHANGED outcome
  /\ UNCHANGED <<entry, config, retry, agentHistory, envelope>>
  /\ UNCHANGED <<context, decisions, selected, rest>>

\* the outcomes the executor of a call can have, if Tools.invoke reaches it
OutcomesFor(tc) ==
  IF tc.toolName \in ToolNames THEN ExecOutcomes(tc.toolName)
  ELSE {Returns(ToolResult(TextContent(<<>>), FALSE))}

\* the executor calls Tools.invoke made for call tc
Executions(tc, k, inv) ==
  [i \in 1..Len(inv.executed) |->
     Event("execute", k,
           ToolCall(inv.executed[i].toolCallId, inv.executed[i].toolName,
                    inv.executed[i].params), <<>>)]

\* Tools.invoke up to its await of the executor: the executor calls made do
\* not depend on what the executor settles to
InvokeStarts(toolName, args, toolCallId) ==
  Invoke(toolName, args, toolCallId, Returns(ToolResult(TextContent(<<>>), FALSE)))

\* the executor is started before the tool-call notification is emitted
InvocationEventsExecutorFirst(tc, k, inv) ==
  Executions(tc, k, inv) \o <<Event("onToolCall", k, tc, <<>>)>>

\* What one iteration of the tool-call loop emits and calls before it awaits
\* Tools.invoke, in order: the tool-call notification, then in Tools.invoke
\* the executor, if the tool is known and the arguments are accepted
InvocationEvents(tc, k, inv) ==
  <<Event("onToolCall", k, tc, <<>>)>> \o Executions(tc, k, inv)

\* What the iteration emits after the await: the tool-result notification,
\* unless invoke rejected
ResultEvents(tc, k, inv) ==
  IF inv.rejected THEN <<>> ELSE <<Event("onToolResult", k, tc, Observation(inv.result))>>

\* what the invocation of call tc, begun as started, is awaiting: an outcome
\* of the executor, if Tools.invoke started it, and nothing of the executor
\* otherwise
AwaitedOutcomes(tc, started) ==
  IF started.executed = <<>>
  THEN {Returns(ToolResult(TextContent(<<>>), FALSE))}
  ELSE OutcomesFor(tc)

\* One iteration of the tool-call loop up to its await: the tool-call
\* notification and the call of Tools.invoke, which starts the executor; run()
\* then waits for invoke to settle
ToolCallBegins ==
  /\ pc = "tools"
  /\ \E tc \in {toolCalls[callIdx]} :
       \E args \in {JSONStringify(tc.args)} :
         \E inv \in {InvokeStarts(tc.toolName, args, tc.toolCallId)} :
           events' = events \o InvocationEvents(tc, step + 1, inv)
  /\ pc' = "invoking"
  /\ UNCHANGED <<entry, task, mode, approvalMode, maxSteps, maxRetries, retry, responses,
                 agentHistory, envelope, invocations, step, toolCalls, callIdx, messages,
                 history, outcome>>
  /\ UNCHANGED <<context, decisions, selected, rest>>

\* The iteration after the await, the executor having behaved as o: the
\* tool-result notification, the trace record and the tool turn; after the
\* last call the continuation prompt
ToolCallSettles(o) ==
  /\ pc = "invoking"
  /\ \E tc \in {toolCalls[callIdx]} :
       \E args \in {JSONStringify(tc.args)} :
         \E started \in {InvokeStarts(tc.toolName, args, tc.toolCallId)} :
           /\ o \in AwaitedOutcomes(tc, started)
           /\ \E inv \in {Invoke(tc.toolName, args, tc.toolCallId, o)} :
                \E observation \in {Observation(inv.result)} :
                  /\ invocations' =
                       Append(invocations,
                              [toolName |-> tc.toolName,
                               toolCallId |-> tc.toolCallId,
                               args |-> args,
                               settled |-> inv,
                               executor |-> o])
                  /\ events' = events \o ResultEvents(tc, step + 1, inv)
                  /\ IF inv.rejected
                     THEN /\ FailStep(ErrorMessage(inv.error))
                          /\ UNCHANGED <<step, toolCalls, callIdx, messages, history>>
                     ELSE /\ history' =
                               Append(history, ActionStep(ActionText(tc), observation))
                          /\ IF callIdx < Len(toolCalls)
                             THEN /\ messages' =
                                       Append(messages,
                                              ArrayMessage("tool",
                                                           <<ToolResultPart(tc, observation)>>))
                                  /\ callIdx' = callIdx + 1
                                  /\ pc' = "tools"
                                  /\ UNCHANGED <<step, toolCalls>>
                             ELSE /\ messages' =
                                       messages
                                       \o <<ArrayMessage("tool",
                                                         <<ToolResultPart(tc, observation)>>),
                                            StringMessage("user", ContinuationPrompt)>>
                                  /\ callIdx' = 0
                                  /\ toolCalls' = <<>>
                                  /\ step' = step + 1
                                  /\ pc' = "step"
                          /\ UNCHANGED outcome
  /\ UNCHANGED <<entry, task, mode, approvalMode, maxSteps, maxRetries, retry, responses,
                 agentHistory, envelope>>
  /\ UNCHANGED <<context, decisions, selected, rest>>

\* ------------------------------------------------------------------------
\* Agent.run (agent.ts)
\* ------------------------------------------------------------------------
\* Agent.run(t) with config.reasoningMode = pref and config.maxSteps = ms, up
\* to the await of the model creator
AgentRun(t, pref, ms) ==
  /\ pc = "idle"
  /\ entry' = "agent"
  /\ task' = t
  /\ mode' = selectMode(t, pref)
  /\ maxSteps' = ms
  /\ pc' = "creating"
  /\ UNCHANGED <<approvalMode, maxRetries, invocations, step, retry, toolCalls, callIdx,
                 transcript, outcome, agentHistory, envelope>>
  /\ UNCHANGED <<context, decisions, selected, rest>>

\* executeWithMode with a plan_solve branch that builds the agent with one
\* attempt per model call
executeWithModePlanOnce(m) ==
  [maxRetries |-> IF m = "plan_solve" THEN 1 ELSE FacadeMaxRetries]

\* executeWithMode: every mode builds the same ReActAgent
executeWithMode(m) == [maxRetries |-> FacadeMaxRetries]

\* _mCreator resolves: the ReActAgent is built and run
CreatorReturns ==
  /\ pc = "creating"
  /\ maxRetries' = executeWithMode(mode).maxRetries
  /\ BeginRun(task)
  /\ UNCHANGED <<entry, task, mode, approvalMode, maxSteps, invocations, retry,
                 toolCalls, callIdx, events, responses, outcome, agentHistory, envelope>>
  /\ UNCHANGED <<context, decisions, selected, rest>>

\* the result Agent.run gives for an error caught by its catch block
FailureResult(message) == <<"Error: ">> \o message

FailureEnvelope(message) ==
  [result |-> FailureResult(message),
   resolved |-> TRUE,
   success |-> FALSE,
   turnsCount |-> Len(agentHistory),
   toolCallsCount |-> 0]

SuccessEnvelope(result) ==
  [result |-> result,
   resolved |-> TRUE,
   success |-> TRUE,
   turnsCount |-> Len(agentHistory),
   toolCallsCount |-> 0]

\* _mCreator rejects with error e: executeWithMode throws it
CreatorThrows(e) ==
  /\ pc = "creating"
  /\ outcome' = NotCreated(ErrorMessage(e))
  /\ pc' = "done"
  /\ UNCHANGED <<entry, config, step, retry, toolCalls, callIdx, transcript,
                 agentHistory, envelope>>
  /\ UNCHANGED <<context, decisions, selected, rest>>

\* executeWithMode settled: Agent.run resolves
AgentSettle ==
  /\ pc = "done"
  /\ entry = "agent"
  /\ ~envelope.resolved
  /\ outcome.kind # "pending"
  /\ envelope' = IF outcome.kind = "returned" THEN SuccessEnvelope(outcome.value)
                 ELSE FailureEnvelope(outcome.value)
  /\ UNCHANGED <<pc, entry, config, step, retry, toolCalls, callIdx, transcript, outcome,
                 agentHistory>>
  /\ UNCHANGED <<context, decisions, selected, rest>>

\* ------------------------------------------------------------------------
\* Specification
\* ------------------------------------------------------------------------
Next ==
  \/ \E t \in Tasks, ms \in 0..MaxSteps, mr \in 0..MaxRetriesBound : ReActRun(t, ms, mr)
  \/ \E t \in Tasks, pref \in Preferences, ms \in 0..MaxSteps :
       AgentRun(t, pref, ms)
  \/ CreatorReturns
  \/ \E e \in CreatorErrors : CreatorThrows(e)
  \/ StepBegin
  \/ RetriesExhausted
  \/ \E e \in ModelErrors : ModelThrows(e)
  \/ BackoffElapsed
  \/ \E r \in Responses : ModelReturns(r)
  \/ ToolCallBegins
  \/ \E o \in UNION {ExecOutcomes(n) : n \in ToolNames}
            \cup {Returns(ToolResult(TextContent(<<>>), FALSE))} : ToolCallSettles(o)
  \/ AgentSettle

Spec == Init /\ [][Next]_vars

\* The steps of a run that is under way. Every model call and every executor
\* settles, and every backoff timer fires: a run that can take a step takes one.
RunProgress ==
  \/ CreatorReturns
  \/ \E e \in CreatorErrors : CreatorThrows(e)
  \/ StepBegin
  \/ RetriesExhausted
  \/ \E e \in ModelErrors : ModelThrows(e)
  \/ BackoffElapsed
  \/ \E r \in Responses : ModelReturns(r)
  \/ ToolCallBegins
  \/ \E o \in UNION {ExecOutcomes(n) : n \in ToolNames}
            \cup {Returns(ToolResult(TextContent(<<>>), FALSE))} : ToolCallSettles(o)
  \/ AgentSettle

SpecLive == Init /\ [][Next]_vars /\ WF_vars(RunProgress)

\* ------------------------------------------------------------------------
\* Tools.invoke called directly, on any tool name and any argument string
\* ------------------------------------------------------------------------
MaxInvocations == 2

InvokeNames == ToolNames \cup {"delete_file"}

\* Argument strings: JSON objects (valid for a schema or not), JSON that is no
\* object, and text that is no JSON
RawArgs ==
  {JSONStringify(ReadCall.args),
   JSONStringify(WriteCall.args),
   JSONStringify(CustomCall.args),
   JSONStringify(InvalidArgsCall.args),
   <<"{", "}">>,
   <<"null">>,
   <<"{", "file_path", "string", "a.ts">>,
   <<>>}

CallIds == {"call_1", "call_2"}

\* tools.invoke(toolName, args, toolCallId) up to its await: a call that does
\* not reach the executor settles at once, the others start the executor and
\* wait for it, while further calls are made
DirectInvokeBegins(toolName, args, toolCallId) ==
  /\ pc = "idle"
  /\ Len(invocations) + Len(inflight) < MaxInvocations
  /\ \E started \in {InvokeStarts(toolName, args, toolCallId)} :
       IF started.executed = <<>>
       THEN /\ invocations' =
                 Append(invocations,
                        [toolName |-> toolName,
                         toolCallId |-> toolCallId,
                         args |-> args,
                         settled |-> started,
                         executor |-> Returns(ToolResult(TextContent(<<>>), FALSE))])
            /\ UNCHANGED inflight
       ELSE /\ inflight' =
                 Append(inflight,
                        [toolName |-> toolName,
                         toolCallId |-> toolCallId,
                         args |-> args,
                         started |-> started])
            /\ UNCHANGED invocations
  /\ UNCHANGED <<pc, entry, task, mode, approvalMode, maxSteps, maxRetries, step, retry,
                 toolCalls, callIdx, transcript, outcome, agentHistory, envelope>>
  /\ UNCHANGED <<context, decisions, selected, overlap, conversation, counter>>

\* the executor of the k-th waiting call behaves as o and the call settles;
\* the executors finish in any order
DirectInvokeSettles(k, o) ==
  /\ pc = "idle"
  /\ k \in 1..Len(inflight)
  /\ \E call \in {inflight[k]} :
       /\ o \in ExecOutcomes(call.toolName)
       /\ invocations' =
            Append(invocations,
                   [toolName |-> call.toolName,
                    toolCallId |-> call.toolCallId,
                    args |-> call.args,
                    settled |-> Invoke(call.toolName, call.args, call.toolCallId, o),
                    executor |-> o])
  /\ inflight' = [i \in 1..(Len(inflight) - 1) |->
                    IF i < k THEN inflight[i] ELSE inflight[i + 1]]
  /\ UNCHANGED <<pc, entry, task, mode, approvalMode, maxSteps, maxRetries, step, retry,
                 toolCalls, callIdx, transcript, outcome, agentHistory, envelope>>
  /\ UNCHANGED <<context, decisions, selected, overlap, conversation, counter>>

NextTools ==
  \/ \E n \in InvokeNames, a \in RawArgs, id \in CallIds : DirectInvokeBegins(n, a, id)
  \/ \E k \in 1..MaxInvocations, o \in UNION {ExecOutcomes(m) : m \in ToolNames} :
       DirectInvokeSettles(k, o)

SpecTools == Init /\ [][NextTools]_vars

\* ------------------------------------------------------------------------
\* ContextManager called directly
\* ------------------------------------------------------------------------
\* texts of 1, 5 and 6 characters: 1, 2 and 2 estimated tokens
Contents == {Chars("a", 1), Chars("b", 5), Chars("c", 6)}

Priorities == {ContextPriority.LOW, ContextPriority.MEDIUM, ContextPriority.HIGH}

Ceilings == 0..MaxCeiling

\* manager.addItem(content, priority), tick milliseconds after the call before
AddItem(content, priority, tick) ==
  /\ contextCalls < MaxCalls
  /\ LET r == addItem(items, ContextItem(content, priority, clock + tick, contextCalls + 1),
                      maxTokens)
     IN /\ items' = r.items
        /\ lastCall' = ContextCall("addItem", content, priority, r.value)
  /\ clock' = clock + tick
  /\ contextCalls' = contextCalls + 1
  /\ UNCHANGED <<maxTokens, decisions, selected, rest, pc, entry, config, step, retry, toolCalls, callIdx, transcript,
                 outcome, agentHistory, envelope>>

\* await manager.compress()
Compress ==
  /\ contextCalls < MaxCalls
  /\ items' = compress(items, maxTokens)
  /\ lastCall' = ContextCall("compress", <<>>, 0, FALSE)
  /\ contextCalls' = contextCalls + 1
  /\ UNCHANGED <<maxTokens, clock, decisions, selected, rest, pc, entry, config, step, retry, toolCalls, callIdx,
                 transcript, outcome, agentHistory, envelope>>

\* manager.clear()
Clear ==
  /\ contextCalls < MaxCalls
  /\ items' = <<>>
  /\ lastCall' = ContextCall("clear", <<>>, 0, FALSE)
  /\ contextCalls' = contextCalls + 1
  /\ UNCHANGED <<maxTokens, clock, decisions, selected, rest, pc, entry, config, step, retry, toolCalls, callIdx,
                 transcript, outcome, agentHistory, envelope>>

InitContext ==
  /\ Idle
  /\ ConversationHistoryNew(1)
  /\ TokenCounterNew(0)
  /\ \E max \in Ceilings : ContextManagerNew(max)

NextContext ==
  \/ \E content \in Contents, priority \in Priorities, tick \in {0, 1} :
       AddItem(content, priority, tick)
  \/ Compress
  \/ Clear

SpecContext == InitContext /\ [][NextContext]_vars

\* addItem is the only method called
NextAdds ==
  \E content \in Contents, priority \in Priorities, tick \in {0, 1} :
    AddItem(content, priority, tick)

SpecAdds == InitContext /\ [][NextAdds]_vars

\* ------------------------------------------------------------------------
\* ApprovalSystem called directly
\* ------------------------------------------------------------------------
MaxDecisions == 4

\* the tools needsApproval is asked about, each with the params of the call;
\* for every category there is a tool that declares no predicate
ApprovalRequests ==
  ({createReadTool, createWriteTool, customTool,
    createTool("run_command", "command", "none"),
    createTool("fetch_url", "network", "none")} \X {JsObject(<<>>)})
  \cup ({createBashTool}
        \X {JsObject(<<Prop("command", "string", c)>>) :
              c \in {<<"ls">>, <<"sudo", " ", "rm", " ", "x">>}})
  \cup ({createTool("search_docs", "read", "sync"), createTool("deploy", "write", "sync"),
         createTool("run_script", "command", "sync"),
         createTool("send_mail", "network", "async")}
        \X {JsObject(<<Prop("confirm", "boolean", b)>>) : b \in {"true", "false"}})

\* system.needsApproval(tool, params)
NeedsApproval(tool, params) ==
  /\ pc = "idle"
  /\ Len(decisions) < MaxDecisions
  /\ decisions' =
       Append(decisions,
              [params |-> params,
               tool |-> tool,
               mode |-> "",
               op |-> "needsApproval",
               returned |-> needsApproval(approvalMode, tool, params)])
  /\ UNCHANGED <<context, selected, rest, pc, entry, config, step, retry, toolCalls, callIdx,
                 transcript, outcome, agentHistory, envelope>>

\* system.setMode(m)
SetMode(m) ==
  /\ pc = "idle"
  /\ Len(decisions) < MaxDecisions
  /\ approvalMode' = m
  /\ decisions' =
       Append(decisions,
              [params |-> JsUndefined,
               tool |-> customTool,
               mode |-> m,
               op |-> "setMode",
               returned |-> Boolean(FALSE)])
  /\ UNCHANGED <<context, selected, rest, pc, entry, task, mode, maxSteps, maxRetries,
                 invocations, step, retry, toolCalls, callIdx, transcript, outcome,
                 agentHistory, envelope>>

NextApproval ==
  \/ \E r \in ApprovalRequests : NeedsApproval(r[1], r[2])
  \/ \E m \in ApprovalModes : SetMode(m)

SpecApproval == Init /\ [][NextApproval]_vars

\* ------------------------------------------------------------------------
\* ModeSelector called directly
\* ------------------------------------------------------------------------
MaxWords == 3

\* task texts: up to MaxWords of these words, one token each
SelectorTasks ==
  UNION {[1..n -> {"Refactor", "restructure", "Review", "optimize", "Find", "explain",
                   " the code "}] : n \in 1..MaxWords}

\* selector.selectMode(t, userPreference) on a new ModeSelector;
\* userPreference may be left out. The selector has no fields: a call does not
\* depend on the calls before it
SelectMode(t, userPreference) ==
  /\ pc = "idle"
  /\ selected.task = <<>>
  /\ selected' = [userPreference |-> userPreference,
                  task |-> t,
                  returned |-> selectMode(t, userPreference)]
  /\ UNCHANGED <<rest, context, decisions, pc, entry, config, step, retry, toolCalls,
                 callIdx, transcript, outcome, agentHistory, envelope>>

NextSelector ==
  \E t \in SelectorTasks, userPreference \in ReasoningModes \cup {NoPreference} :
    SelectMode(t, userPreference)

SpecSelector == Init /\ [][NextSelector]_vars

\* ------------------------------------------------------------------------
\* ConversationHistory called directly
\* ------------------------------------------------------------------------
MaxTurnsBound == 3

MaxHistoryCalls == 4

\* messages given to addMessage: string content, a text part, a part that is
\* no text
HistoryMessages ==
  {StringMessage("user", <<"Hello">>),
   ArrayMessage("assistant", <<TextPart(<<"Hi there!">>)>>),
   ArrayMessage("assistant", <<ToolCallPart(ReadCall)>>)}

\* history.addMessage(message); the clock has advanced by tick
AddMessage(message, tick) ==
  /\ conversation.calls < MaxHistoryCalls
  /\ LET normalizedMessage ==
           NormalizedMessage(message, conversation.uuids + 1, conversation.now + tick,
                             "undefined")
         pushed == Append(conversation.messages, normalizedMessage)
     IN conversation' =
          [conversation EXCEPT
             !.messages = IF Len(pushed) > conversation.maxTurns
                          THEN sliceFrom(pushed, -conversation.maxTurns)
                          ELSE pushed,
             !.uuids = @ + 1,
             !.now = @ + tick,
             !.added = Append(@, normalizedMessage),
             !.calls = @ + 1,
             !.lastCall = HistoryCall("addMessage", 0, conversation.messages,
                                      conversation.messages, <<>>)]
  /\ UNCHANGED <<loop, inflight, context, decisions, selected, overlap, counter>>

\* history.getRecent(n)
GetRecent(n) ==
  /\ conversation' =
       [conversation EXCEPT
          !.lastCall = HistoryCall("getRecent", n, conversation.messages,
                                   conversation.messages,
                                   sliceFrom(conversation.messages, -n))]
  /\ UNCHANGED <<loop, inflight, context, decisions, selected, overlap, counter>>

\* history.clear()
ClearHistory ==
  /\ conversation.calls < MaxHistoryCalls
  /\ conversation' =
       [conversation EXCEPT
          !.messages = <<>>,
          !.added = <<>>,
          !.calls = @ + 1,
          !.lastCall = HistoryCall("clear", 0, conversation.messages,
                                   conversation.messages, <<>>)]
  /\ UNCHANGED <<loop, inflight, context, decisions, selected, overlap, counter>>

\* history.compress() up to its await: it returns at once for a short
\* history, and otherwise summarizes the older messages; the clock has
\* advanced by tick. An earlier call may still be at its await.
CompressBegins(tick) ==
  /\ conversation.calls < MaxHistoryCalls
  /\ LET length == Len(conversation.messages)
         oldMessages == slice(conversation.messages, 0, Half(length))
     IN IF 2 * length <= conversation.maxTurns
        THEN conversation' =
               [conversation EXCEPT
                  !.calls = @ + 1,
                  !.lastCall = HistoryCall("compress", 0, conversation.messages,
                                           conversation.messages, <<>>)]
        ELSE conversation' =
               [conversation EXCEPT
                  !.uuids = @ + 1,
                  !.now = @ + tick,
                  !.pending =
                     Append(@, [before |-> conversation.messages,
                                summary |-> summarizeMessages(oldMessages,
                                                              conversation.uuids + 1,
                                                              conversation.now + tick)]),
                  !.calls = @ + 1,
                  !.lastCall = HistoryCall("compressing", 0, conversation.messages,
                                           conversation.messages, <<>>)]
  /\ UNCHANGED <<loop, inflight, context, decisions, selected, overlap, counter>>

\* compress() after its await, for the earliest call still waiting (the
\* continuations run in the order of the calls): the summary and the newer
\* half of the messages the history holds now
CompressResumes ==
  /\ conversation.pending # <<>>
  /\ conversation' =
       [conversation EXCEPT
          !.messages = <<conversation.pending[1].summary>>
                         \o sliceFrom(conversation.messages,
                                      Half(Len(conversation.messages))),
          !.pending = Tail(@),
          !.lastCall = HistoryCall("compress", 0, conversation.pending[1].before,
                                   conversation.messages, <<>>)]
  /\ UNCHANGED <<loop, inflight, context, decisions, selected, overlap, counter>>

InitHistory ==
  /\ Idle
  /\ ContextManagerNew(0)
  /\ TokenCounterNew(0)
  /\ \E maxTurns \in 1..MaxTurnsBound : ConversationHistoryNew(maxTurns)

NextHistory ==
  \/ \E message \in HistoryMessages, tick \in {0, 1} : AddMessage(message, tick)
  \/ \E n \in 0..(MaxTurnsBound + 1) : GetRecent(n)
  \/ ClearHistory
  \/ \E tick \in {0, 1} : CompressBegins(tick)
  \/ CompressResumes

SpecHistory == InitHistory /\ [][NextHistory]_vars

\* addMessage and clear only
NextMessages ==
  \/ \E message \in HistoryMessages, tick \in {0, 1} : AddMessage(message, tick)
  \/ ClearHistory

SpecMessages == InitHistory /\ [][NextMessages]_vars

\* ------------------------------------------------------------------------
\* TokenCounter called directly
\* ------------------------------------------------------------------------
MaxCounterCalls == 4

MaxCounterTokens == 3

\* texts of one, two and three tokens
CounterContents == {<<"a">>, <<"b", "c">>, <<"d", "e", "f">>}

CounterPriorities == 1..3

\* counter.addContent(content, priority)
AddContent(content, priority) ==
  /\ counter.calls < MaxCounterCalls
  /\ LET added == addContent(counter, ContentEntry(content, priority, counter.calls + 1))
     IN counter' =
          [counter EXCEPT
             !.contents = added.contents,
             !.currentUsage = added.currentUsage,
             !.calls = @ + 1,
             !.lastCall = CounterCall("addContent", content, priority, counter.contents,
                                      added.value)]
  /\ UNCHANGED <<loop, inflight, context, decisions, selected, overlap, conversation>>

\* counter.reset()
ResetCounter ==
  /\ counter.calls < MaxCounterCalls
  /\ counter' =
       [counter EXCEPT
          !.currentUsage = 0,
          !.contents = <<>>,
          !.calls = @ + 1,
          !.lastCall = CounterCall("reset", <<>>, 0, counter.contents, FALSE)]
  /\ UNCHANGED <<loop, inflight, context, decisions, selected, overlap, conversation>>

InitCounter ==
  /\ Idle
  /\ ContextManagerNew(0)
  /\ ConversationHistoryNew(1)
  /\ \E max \in 0..MaxCounterTokens : TokenCounterNew(max)

NextCounter ==
  \/ \E content \in CounterContents, priority \in CounterPriorities :
       AddContent(content, priority)
  \/ ResetCounter

SpecCounter == InitCounter /\ [][NextCounter]_vars

\* ------------------------------------------------------------------------
\* run() called while another run() on the same ReActAgent is awaiting
\* ------------------------------------------------------------------------
\* call k of run(task) up to its first await: the trace is reset
RunStarts(k) ==
  /\ overlap.status[k] = "new"
  /\ overlap' = [overlap EXCEPT !.history = <<>>, !.status[k] = "running"]
  /\ UNCHANGED <<loop, inflight, context, decisions, selected, conversation, counter>>

\* call k resumes after an await and pushes a thought or an action record
RunPushes(k) ==
  /\ overlap.status[k] = "running"
  /\ overlap.held[k] < MaxPushes
  /\ overlap' = [overlap EXCEPT
                   !.history = Append(@, TraceRecord(k, overlap.held[k] + 1)),
                   !.held[k] = @ + 1]
  /\ UNCHANGED <<loop, inflight, context, decisions, selected, conversation, counter>>

\* call k ends: with the record of the final answer when final, without a
\* record when the steps ran out or the step threw
RunEnds(k, final) ==
  /\ overlap.status[k] = "running"
  /\ overlap' = [overlap EXCEPT
                   !.history = IF final THEN Append(@, TraceRecord(k, overlap.held[k] + 1))
                               ELSE @,
                   !.held[k] = IF final THEN @ + 1 ELSE @,
                   !.status[k] = "returned"]
  /\ UNCHANGED <<loop, inflight, context, decisions, selected, conversation, counter>>

NextOverlap ==
  \E k \in 1..MaxRuns :
    \/ RunStarts(k)
    \/ RunPushes(k)
    \/ \E final \in BOOLEAN : RunEnds(k, final)

SpecOverlap == Init /\ [][NextOverlap]_vars

\* ------------------------------------------------------------------------
\* Properties of the reasoning loop
\* ------------------------------------------------------------------------
\* the number of steps the run has begun: one step notification each
StepsBegun == Cardinality({i \in 1..Len(events) : events[i].type = "onStep"})

HasMarker(text) == \E i \in 1..Len(text) : text[i] = Marker

NonEmpty(r) == r.text # <<>> \/ r.toolCalls # <<>>

RunEnded == pc = "done" /\ outcome.kind \in {"returned", "thrown"}

LastResponse == responses[Len(responses)]

\* the current step has its response
GotResponse == Len(responses) > 0 /\ Len(responses) = StepsBegun

\* C1: when every step gets a model response on its first call, and every
\* response is non-empty and free of the marker, the run takes exactly maxSteps
\* steps, one response each, and returns the sentinel; it does not throw.
C1_ExhaustionAfterMaxSteps ==
  /\ StepsBegun <= maxSteps
  /\ ( /\ RunEnded
       /\ modelCalls = Len(responses)
       /\ StepsBegun = Len(responses)
       /\ \A i \in 1..Len(responses) :
            NonEmpty(responses[i]) /\ ~HasMarker(responses[i].text) )
     => /\ outcome = Returned(Sentinel)
        /\ StepsBegun = maxSteps
        /\ Len(responses) = maxSteps

C1_Witness ==
  /\ RunEnded
  /\ outcome = Returned(Sentinel)
  /\ maxSteps >= 2
  /\ modelCalls = maxSteps
  /\ Len(responses) = maxSteps
  /\ responses[1].toolCalls # <<>>
  /\ responses[2].toolCalls = <<>>

ToolEvents(evs) ==
  SelectSeq(evs, LAMBDA e : e.type \in {"onToolCall", "execute", "onToolResult"})

\* C2: a response that carries the marker and tool calls ends the run with the
\* final answer; none of its tool calls is notified or executed and no turn is
\* appended for it, then or later.
C2_FinalAnswerDropsToolCalls ==
  [][ /\ ( /\ Len(responses') = Len(responses) + 1
           /\ HasMarker(responses'[Len(responses')].text)
           /\ responses'[Len(responses')].toolCalls # <<>> )
         => /\ pc' = "done"
            /\ outcome'.kind = "returned"
            /\ messages' = messages
            /\ ToolEvents(events') = ToolEvents(events)
      /\ pc = "done" => (messages' = messages /\ events' = events /\ pc' = "done")
    ]_vars

C2_Witness ==
  /\ RunEnded
  /\ Len(responses) = 2
  /\ HasMarker(LastResponse.text)
  /\ LastResponse.toolCalls # <<>>
  /\ outcome.kind = "returned"

\* everything in the text after its first marker
AfterMarker(text) ==
  LET i == CHOOSE k \in 1..Len(text) :
             text[k] = Marker /\ \A j \in 1..(k - 1) : text[j] # Marker
  IN SubSeq(text, i + 1, Len(text))

\* C3: the first response with the marker ends the run at its step; the run
\* returns everything after the marker, trimmed, and the trace ends with one
\* terminal record holding that answer; at step 1 the trace has one entry.
C3_AnswerIsTextAfterMarker ==
  (RunEnded /\ Len(responses) > 0 /\ HasMarker(LastResponse.text))
  => /\ StepsBegun = Len(responses)
     /\ outcome = Returned(Trim(AfterMarker(LastResponse.text)))
     /\ history # <<>>
     /\ history[Len(history)].fields = {"thought", "observation"}
     /\ history[Len(history)].observation = Trim(AfterMarker(LastResponse.text))
     /\ (Len(responses) = 1 => Len(history) = 1)

\* the errors of the model that carry a transient network signature
TransientErrors == {Thrown(TRUE, <<"SocketError", ": ", "other side closed">>)}

\* the error of the current step as run() throws it
WrappedInStep(message) == <<"Error in step ", ToString(StepsBegun), ": ">> \o message

AssistantTurns == Cardinality({i \in 1..Len(messages) : messages[i].role = "assistant"})

\* C4: no step issues more than maxRetries model calls; a step fails with a
\* transient error only when maxRetries attempts have failed; a response that
\* arrives after fewer failures is processed and the run does not fail.
C4_RetryCeiling ==
  /\ stepCalls <= maxRetries
  /\ ( /\ outcome.kind = "thrown"
       /\ caught.present
       /\ caught.error \in TransientErrors
       /\ outcome.value = WrappedInStep(caught.error.text) )
     => (stepCalls = maxRetries /\ Len(delays) = maxRetries - 1)
  /\ (GotResponse /\ NonEmpty(LastResponse)) => outcome.kind # "thrown"
  /\ (GotResponse /\ NonEmpty(LastResponse) /\ ~HasMarker(LastResponse.text))
     => AssistantTurns = Len(responses)

C4_Witness ==
  /\ maxRetries = 3
  /\ stepCalls = 3
  /\ Len(delays) = 2
  /\ GotResponse
  /\ RunEnded
  /\ outcome.kind = "returned"

\* C5 as stated: a step in which a non-transient error is caught has made
\* exactly one model call and waited for no backoff delay.
C5_ExactlyOneCall ==
  (caught.present /\ caught.error \notin TransientErrors)
  => (stepCalls = 1 /\ delays = <<>>)

\* C5, amended: a non-transient error is never retried. No model call and no
\* backoff delay follows it in its step, and the run fails at once with that
\* error, whatever the retry ceiling; a step whose first call raises it has
\* made exactly one call and waited for no delay.
C5_NonTransientNotRetried ==
  (caught.present /\ caught.error \notin TransientErrors)
  => /\ pc = "done"
     /\ outcome = ThrownOut(WrappedInStep(caught.error.text))
     /\ stepCalls = Len(delays) + 1
     /\ stepCalls = attempt + 1
     /\ Len(responses) = StepsBegun - 1
     /\ (delays = <<>> => stepCalls = 1)

C5_Witness ==
  /\ caught.present
  /\ caught.error \notin TransientErrors
  /\ maxRetries >= 3
  /\ stepCalls = 2
  /\ outcome.kind = "thrown"

\* C6: an empty response at step k fails the run at once with an error naming
\* step k, and nothing is appended for it; once the run has thrown, no model
\* call, no step and no record follows; every error run() throws names the
\* 1-indexed step it escaped from.
C6_EmptyResponseFailsStep ==
  [][ /\ ( /\ Len(responses') = Len(responses) + 1
           /\ ~NonEmpty(responses'[Len(responses')]) )
         => /\ pc' = "done"
            /\ outcome' = ThrownOut(<<"Error in step ", ToString(Len(responses')), ": ",
                                      "No text in response and no tool calls">>)
            /\ StepsBegun' = Len(responses')
            /\ messages' = messages
            /\ history' = history
      /\ outcome.kind = "thrown"
         => /\ outcome' = outcome
            /\ modelCalls' = modelCalls
            /\ responses' = responses
            /\ events' = events
            /\ messages' = messages
            /\ history' = history
      /\ outcome'.kind = "thrown"
         => SubSeq(outcome'.value, 1, 3) = <<"Error in step ", ToString(StepsBegun'), ": ">>
    ]_vars

C6_Witness ==
  /\ RunEnded
  /\ outcome.kind = "thrown"
  /\ Len(responses) = 2
  /\ ~NonEmpty(LastResponse)
  /\ Len(messages) > 1

\* ------------------------------------------------------------------------
\* Properties of Agent.run
\* ------------------------------------------------------------------------
\* C7: Agent.run never propagates: when model creation or the reasoning loop
\* threw an error with message m the envelope has success = false and its
\* result is m, and success = true only when the loop returned a value (which
\* is then the result).
C7_FailureResultIsMessage ==
  envelope.resolved
  => /\ envelope.success <=> outcome.kind = "returned"
     /\ outcome.kind \in {"thrown", "notCreated"} => envelope.result = outcome.value
     /\ outcome.kind = "returned" => envelope.result = outcome.value

\* ------------------------------------------------------------------------
\* Properties of Tools.invoke
\* ------------------------------------------------------------------------
SchemaOf(toolName) == ToolsGet(toolName).parameters

\* the value conforms to the schema: an object holding only fields of the
\* schema, each once and of the declared type, and every required field
Conforms(schema, v) ==
  /\ v.kind = "object"
  /\ \A i \in 1..Len(v.props) :
       \E j \in 1..Len(schema) :
         schema[j].key = v.props[i].key /\ schema[j].type = v.props[i].type
  /\ \A i, j \in 1..Len(v.props) : v.props[i].key = v.props[j].key => i = j
  /\ \A j \in 1..Len(schema) : schema[j].optional \/ HasKey(v.props, schema[j].key)

\* the value holds the fields of the schema that the object written in the raw
\* string has, with their values, and nothing else
TakenFrom(schema, v, raw) ==
  /\ JSONParse(raw).ok
  /\ JSONParse(raw).value.kind = "object"
  /\ \A i \in 1..Len(v.props) :
       /\ HasKey(JSONParse(raw).value.props, v.props[i].key)
       /\ Lookup(JSONParse(raw).value.props, v.props[i].key) = v.props[i]
  /\ \A j \in 1..Len(schema) :
       HasKey(JSONParse(raw).value.props, schema[j].key) => HasKey(v.props, schema[j].key)

ExecutorThrew(inv) == inv.settled.executed # <<>> /\ inv.executor.kind = "throw"

\* C8: Tools.invoke never rejects; it resolves to a ToolResult whose isError is
\* true whenever the tool is absent, the argument string is no JSON, schema
\* validation fails, or the executor throws.
C8_InvokeNeverRejects ==
  \A i \in 1..Len(invocations) :
    LET inv == invocations[i]
    IN /\ ~inv.settled.rejected
       /\ ( \/ inv.toolName \notin ToolNames
            \/ ~JSONParse(inv.args).ok
            \/ ~ZodParse(SchemaOf(inv.toolName), JSONParse(inv.args).value).ok
            \/ ExecutorThrew(inv) )
          => /\ inv.settled.result.isError
             /\ inv.settled.result.llmContent.isString
             /\ inv.settled.result.llmContent.text # <<>>

C8_Witness ==
  /\ Len(invocations) = 2
  /\ ExecutorThrew(invocations[1])
  /\ invocations[1].settled.result.isError
  /\ invocations[2].toolName \in ToolNames
  /\ ~JSONParse(invocations[2].args).ok
  /\ invocations[2].settled.result.isError

\* C9: the executor runs at most once in an invocation, and only for a tool
\* that was found, with arguments that parsed as JSON and passed validation;
\* it receives the validated arguments (the schema's fields of the parsed
\* object) and the call id, and what it returns is the result of the
\* invocation, unchanged.
C9_ExecutorAfterValidation ==
  /\ \A i \in 1..Len(invocations) :
    LET inv == invocations[i]
        executed == inv.settled.executed
    IN /\ Len(executed) <= 1
       /\ executed # <<>>
          => /\ inv.toolName \in ToolNames
             /\ executed[1].toolName = inv.toolName
             /\ executed[1].toolCallId = inv.toolCallId
             /\ Conforms(SchemaOf(inv.toolName), executed[1].params)
             /\ TakenFrom(SchemaOf(inv.toolName), executed[1].params, inv.args)
             /\ inv.executor.kind = "return"
                => ~inv.settled.rejected /\ inv.settled.result = inv.executor.result
  /\ \A k \in 1..Len(inflight) :
       LET inv == inflight[k]
           executed == inv.started.executed
       IN /\ Len(executed) = 1
          /\ inv.toolName \in ToolNames
          /\ executed[1].toolName = inv.toolName
          /\ executed[1].toolCallId = inv.toolCallId
          /\ Conforms(SchemaOf(inv.toolName), executed[1].params)
          /\ TakenFrom(SchemaOf(inv.toolName), executed[1].params, inv.args)

C9_Witness ==
  /\ Len(invocations) = 2
  /\ invocations[1].args = JSONStringify(ReadCall.args)
  /\ invocations[1].settled.executed # <<>>
  /\ invocations[1].settled.executed[1].params # JSONParse(invocations[1].args).value
  /\ invocations[1].executor.kind = "return"
  /\ invocations[1].settled.result = invocations[1].executor.result
  /\ invocations[2].settled.executed # <<>>
  /\ invocations[2].settled.result.isError
  /\ invocations[2].executor.kind = "return"

\* ------------------------------------------------------------------------
\* Properties of the approval gate
\* ------------------------------------------------------------------------
\* the executor ran for this event's call, which the gate flags in the
\* configured approval mode
FlaggedExecution(e) ==
  /\ e.type = "execute"
  /\ needsApproval(approvalMode, ToolsGet(e.toolName), JsObject(<<>>)).value

\* C10: in a run of the reasoning loop the executor of a tool call that
\* needsApproval flags runs only after requestApproval was called for that
\* call and approved it.
C10_ExecutionRequiresApproval ==
  \A i \in 1..Len(events) :
    FlaggedExecution(events[i])
    => \E j \in 1..(i - 1) :
         /\ events[j].type = "requestApproval"
         /\ events[j].toolCallId = events[i].toolCallId
         /\ events[j].payload = <<"approved">>

\* ------------------------------------------------------------------------
\* Properties of the tool-call loop
\* ------------------------------------------------------------------------
\* the invocation failed: the tool is not registered, the arguments are no
\* JSON or do not validate, the executor threw, or the result is an error
FailedInvocation(inv) ==
  \/ inv.toolName \notin ToolNames
  \/ ~JSONParse(inv.args).ok
  \/ ~ZodParse(SchemaOf(inv.toolName), JSONParse(inv.args).value).ok
  \/ ExecutorThrew(inv)
  \/ inv.settled.result.isError

LastInvocation == invocations[Len(invocations)]

\* the tool-role turn that carries the result of an invocation
ToolTurn(inv) ==
  [role |-> "tool",
   content |-> [text |-> <<>>,
                parts |-> <<[type |-> "tool-result",
                             toolName |-> inv.toolName,
                             text |-> Observation(inv.settled.result),
                             toolCallId |-> inv.toolCallId,
                             args |-> JsUndefined]>>,
                isArray |-> TRUE]]

\* C11: a failed tool invocation does not end the run. Its result is appended
\* as a tool-role turn and as a trace record; after the last call of the
\* response the continuation prompt follows and the next step begins, which,
\* below the step limit, issues the next model call.
C11_ToolFailureNotFatal ==
  [][ /\ ( /\ pc = "invoking"
           /\ Len(invocations') = Len(invocations) + 1
           /\ FailedInvocation(invocations'[Len(invocations')]) )
         => LET inv == invocations'[Len(invocations')]
            IN /\ inv.settled.result.isError
               /\ outcome' = outcome
               /\ outcome'.kind = "pending"
               /\ Len(history') = Len(history) + 1
               /\ history'[Len(history')].fields = {"action", "observation"}
               /\ history'[Len(history')].observation = Observation(inv.settled.result)
               /\ Len(messages') > Len(messages)
               /\ SubSeq(messages', 1, Len(messages)) = messages
               /\ messages'[Len(messages) + 1] = ToolTurn(inv)
               /\ IF callIdx < Len(toolCalls)
                  THEN /\ Len(messages') = Len(messages) + 1
                       /\ pc' = "tools"
                       /\ callIdx' = callIdx + 1
                       /\ step' = step
                  ELSE /\ Len(messages') = Len(messages) + 2
                       /\ messages'[Len(messages')] =
                            [role |-> "user",
                             content |-> [text |-> ContinuationPrompt,
                                          parts |-> <<>>,
                                          isArray |-> FALSE]]
                       /\ pc' = "step"
                       /\ step' = step + 1
      /\ (pc = "step" /\ step < maxSteps /\ maxRetries > 0)
         => (pc' = "model" /\ modelCalls' = modelCalls + 1)
    ]_vars

C11_Witness ==
  /\ RunEnded
  /\ outcome = Returned(Sentinel)
  /\ modelCalls = 2
  /\ Len(invocations) = 6
  /\ \A i \in 1..3 : FailedInvocation(invocations[i])
  /\ invocations[1].toolName \notin ToolNames
  /\ ExecutorThrew(invocations[5])
  /\ invocations[6].settled.result.isError

\* the position of the k-th assistant turn of the transcript
AssistantPosition(k) ==
  CHOOSE i \in 1..Len(messages) :
    /\ messages[i].role = "assistant"
    /\ Cardinality({j \in 1..i : messages[j].role = "assistant"}) = k

\* the turns from the k-th assistant turn up to the next one
SegmentEnd(k) ==
  IF k < AssistantTurns THEN AssistantPosition(k + 1) - 1 ELSE Len(messages)

\* the result turns for call id in the turns a..b
ResultTurns(a, b, id) ==
  {m \in a..b : /\ messages[m].role = "tool"
                /\ \E p \in 1..Len(messages[m].content.parts) :
                     messages[m].content.parts[p].toolCallId = id}

RequestedIds(k) ==
  {responses[k].toolCalls[j].toolCallId : j \in 1..Len(responses[k].toolCalls)}

\* C12: between two consecutive model calls, that is in the turns from the
\* assistant turn of a response up to the next model call, every tool-call id
\* the response requested (the ids of a response being distinct) has exactly
\* one tool-role result turn, after the assistant turn that carries the
\* request, and no result turn has another id; while the calls of a response
\* are still being executed no id has more than one result turn.
C12_OneResultPerCallId ==
  /\ \A m \in 1..Len(messages) :
       messages[m].role = "tool" => (AssistantTurns > 0 /\ m > AssistantPosition(1))
  /\ \A k \in 1..AssistantTurns :
       LET a == AssistantPosition(k)
           b == SegmentEnd(k)
           complete == k < AssistantTurns \/ pc \notin {"tools", "invoking"}
       IN /\ k <= Len(responses)
          /\ \A m \in a..b :
               messages[m].role = "tool"
               => /\ Len(messages[m].content.parts) = 1
                  /\ messages[m].content.parts[1].type = "tool-result"
                  /\ messages[m].content.parts[1].toolCallId \in RequestedIds(k)
          /\ \A id \in RequestedIds(k) :
               /\ \E p \in 1..Len(messages[a].content.parts) :
                    /\ messages[a].content.parts[p].type = "tool-call"
                    /\ messages[a].content.parts[p].toolCallId = id
               /\ Cardinality(ResultTurns(a + 1, b, id)) <= 1
               /\ complete => Cardinality(ResultTurns(a + 1, b, id)) = 1

C12_Witness ==
  /\ pc = "model"
  /\ Len(responses) = 1
  /\ Cardinality(RequestedIds(1)) = 3
  /\ \A id \in RequestedIds(1) : Cardinality(ResultTurns(1, Len(messages), id)) = 1
  /\ \E i \in 1..Len(invocations) : FailedInvocation(invocations[i])

\* the transcript ends with the assistant turn of the response being processed
\* and the result turns of its first n tool calls, in order
ResultsAppended(n) ==
  /\ Len(messages) > n
  /\ messages[Len(messages) - n].role = "assistant"
  /\ \A j \in 1..n :
       LET m == messages[Len(messages) - n + j]
       IN /\ m.role = "tool"
          /\ m.content.parts[1].toolCallId = toolCalls[j].toolCallId
          /\ m.content.parts[1].toolName = toolCalls[j].toolName

\* C13: the tool calls of a response are executed one at a time in the order
\* listed. When the i-th call starts, the results of the i-1 calls before it
\* are in the transcript; one iteration emits the tool-call notification, then
\* starts the executor (if invoke reaches it), and, once the invocation has
\* settled, emits the tool-result notification, all for that call; the next
\* call starts only after that, and no model call is issued before the last
\* call of the response has its result.
C13_SequentialToolCalls ==
  [][ (pc = "tools" \/ pc = "invoking")
      => /\ toolCalls = LastResponse.toolCalls
         /\ callIdx \in 1..Len(toolCalls)
         /\ ResultsAppended(callIdx - 1)
         /\ modelCalls' = modelCalls
         /\ responses' = responses
         /\ SubSeq(events', 1, Len(events)) = events
         /\ LET tc == toolCalls[callIdx]
                new == SubSeq(events', Len(events) + 1, Len(events'))
            IN /\ \A e \in 1..Len(new) :
                    /\ new[e].toolCallId = tc.toolCallId
                    /\ new[e].toolName = tc.toolName
                    /\ new[e].step = step + 1
               /\ (pc = "tools" /\ events' # events)
                  => /\ Len(new) \in {1, 2}
                     /\ new[1].type = "onToolCall"
                     /\ Len(new) = 2 => new[2].type = "execute"
                     /\ pc' = "invoking"
                     /\ callIdx' = callIdx
                     /\ messages' = messages
                     /\ invocations' = invocations
               /\ (pc = "invoking" /\ events' # events)
                  => /\ Len(new) = 1
                     /\ new[1].type = "onToolResult"
                     /\ Len(invocations') = Len(invocations) + 1
                     /\ invocations'[Len(invocations')].toolCallId = tc.toolCallId
                     /\ events[Len(events)].type = "execute"
                        <=> invocations'[Len(invocations')].settled.executed # <<>>
                     /\ events[Len(events)].type \in {"onToolCall", "execute"}
                     /\ IF callIdx < Len(toolCalls)
                        THEN pc' = "tools" /\ callIdx' = callIdx + 1
                        ELSE pc' = "step"
    ]_vars

C13_Witness ==
  /\ pc = "invoking"
  /\ callIdx = 3
  /\ Len(ToolEvents(events)) = 8
  /\ events[Len(events)].type = "execute"
  /\ ExecutorThrew(invocations[2])
  /\ ResultsAppended(2)

\* ------------------------------------------------------------------------
\* Termination of the reasoning loop
\* ------------------------------------------------------------------------
Running == pc \in {"step", "model", "backoff", "exhausted", "tools", "invoking"}

\* the three ways a run ends
Success ==
  /\ outcome.kind = "returned"
  /\ Len(responses) > 0
  /\ HasMarker(LastResponse.text)

Exhaustion ==
  /\ outcome = Returned(Sentinel)
  /\ StepsBegun = maxSteps
  /\ Len(responses) = maxSteps
  /\ Len(responses) > 0 => ~HasMarker(LastResponse.text)

Failure == outcome.kind = "thrown"

\* C14: when every model call and every executor settles, a run that has
\* started ends, in exactly one of success, exhaustion and failure, and stays
\* ended; it never begins more than maxSteps steps nor issues more than
\* maxSteps * maxRetries model calls.
C14_RunTerminates ==
  /\ [](StepsBegun <= maxSteps /\ modelCalls <= maxSteps * maxRetries)
  /\ [](RunEnded => /\ Success \/ Exhaustion \/ Failure
                    /\ ~(Success /\ Exhaustion)
                    /\ ~(Success /\ Failure)
                    /\ ~(Exhaustion /\ Failure))
  /\ [][RunEnded => (RunEnded' /\ outcome' = outcome)]_vars
  /\ (Running ~> RunEnded)

C14_Witness ==
  /\ RunEnded
  /\ Failure
  /\ maxSteps = 2
  /\ maxRetries = 3
  /\ modelCalls = maxSteps * maxRetries
  /\ StepsBegun = maxSteps

\* ------------------------------------------------------------------------
\* Properties of the ContextManager
\* ------------------------------------------------------------------------
\* the step is a call of op on the manager
ContextCalled(op) == contextCalls' = contextCalls + 1 /\ lastCall'.op = op

\* the estimated cost of the text the last call was given
RequestedTokens == estimateTokens(lastCall.content)

\* the sum of the estimated costs of the texts of its
RECURSIVE CostSum(_)
CostSum(its) ==
  IF its = <<>> THEN 0
  ELSE estimateTokens(its[1].content) + CostSum(SubSeq(its, 2, Len(its)))

Ids(its) == {its[i].id : i \in 1..Len(its)}

\* every call made on the manager so far was an addItem that returned true, and
\* every item added is still there, in insertion order
Pristine == Len(items) = contextCalls /\ \A i \in 1..Len(items) : items[i].id = i

\* the step appended the item of the call and no other
Appended(its) ==
  /\ Len(items') = Len(its) + 1
  /\ SubSeq(items', 1, Len(its)) = its
  /\ items'[Len(items')].content = lastCall'.content
  /\ items'[Len(items')].priority = lastCall'.priority
  /\ items'[Len(items')].id = contextCalls'

\* C15: on a manager that has only seen accepted addItem calls, an addItem whose
\* cost together with the costs of all earlier calls is at most the ceiling
\* returns true, leaves every earlier item in place, and the tracked total is
\* the sum of the costs of all the calls.
C15_AddsWithinCeilingAccepted ==
  [][(/\ ContextCalled("addItem")
      /\ Pristine
      /\ CostSum(items) + RequestedTokens' <= maxTokens)
     => /\ lastCall'.value
        /\ Appended(items)
        /\ getCurrentTokens(items') = CostSum(items) + RequestedTokens']_vars

C15_Witness ==
  /\ Pristine
  /\ lastCall.op = "addItem"
  /\ lastCall.value
  /\ Len(items) = 3
  /\ getCurrentTokens(items) = maxTokens
  /\ \E i \in 1..Len(items) : items[i].tokens = 2

\* the positions in items of the items the step removed
Removed == {i \in 1..Len(items) : items[i].id \notin Ids(items')}

\* the removed item the scan of evictAndAdd reached last: the scan goes by
\* priority, and within a priority by stored position
LastRemoved ==
  CHOOSE i \in Removed :
    \A j \in Removed :
      \/ items[j].priority < items[i].priority
      \/ items[j].priority = items[i].priority /\ j <= i

\* the step is an addItem the remaining budget has no room for
AddDoesNotFit ==
  /\ ContextCalled("addItem")
  /\ CostSum(items) + RequestedTokens' > maxTokens

\* C16: an addItem that does not fit either removes items of lower priority,
\* adds its item and returns true, the total then being within the ceiling but
\* not with the last removed item put back, or it returns false with the same
\* items as before.
C16_EvictsJustEnoughOrNothing ==
  [][AddDoesNotFit
     => \/ /\ lastCall'.value
           /\ Removed # {}
           /\ \A i \in Removed : items[i].priority < lastCall'.priority
           /\ items'[Len(items')].id = contextCalls'
           /\ Ids(items') = (Ids(items) \ {items[i].id : i \in Removed}) \cup {contextCalls'}
           /\ Len(items') = Len(items) - Cardinality(Removed) + 1
           /\ CostSum(items') <= maxTokens
           /\ CostSum(items') + items[LastRemoved].tokens > maxTokens
        \/ /\ ~lastCall'.value
           /\ Ids(items') = Ids(items)
           /\ Len(items') = Len(items)]_vars

\* the third call evicted the first item, which a manager of this size had
\* accepted, and kept the second
C16_Witness ==
  /\ maxTokens >= 2
  /\ contextCalls = 3
  /\ lastCall.op = "addItem"
  /\ lastCall.value
  /\ Len(items) = 2
  /\ items[1].id = 2
  /\ items[2].id = 3
  /\ items[1].priority < items[2].priority

\* C17: an addItem that returns false leaves the items, their stored order and
\* the string getContext() returns as they were before the call.
C17_RejectionLeavesManagerUntouched ==
  [][(ContextCalled("addItem") /\ ~lastCall'.value)
     => /\ items' = items
        /\ getContext(items') = getContext(items)]_vars

\* the positions in items of the items the step kept
Kept == (1..Len(items)) \ Removed

\* item a is evicted before item b: lower priority first, and within a priority
\* the one inserted earlier
EvictedBefore(a, b) ==
  \/ a.priority < b.priority
  \/ a.priority = b.priority /\ a.id < b.id

\* C18: an addItem that evicts removes only items whose priority is strictly
\* lower than the incoming one, lowest priority first and within a priority the
\* oldest-inserted first: no item it keeps was due for eviction before an item
\* it removes.
C18_EvictionOrder ==
  [][(ContextCalled("addItem") /\ Removed # {})
     => /\ \A i \in Removed : items[i].priority < lastCall'.priority
        /\ \A i \in Removed, k \in Kept :
             items[k].priority < lastCall'.priority
               => ~EvictedBefore(items[k], items[i])]_vars

\* C19: whatever calls were made, the costs of the retained items sum to at
\* most maxTokens, and an addItem of a text that costs more than maxTokens
\* returned false.
C19_CeilingRespected ==
  /\ CostSum(items) <= maxTokens
  /\ getCurrentTokens(items) <= maxTokens
  /\ (lastCall.op = "addItem" /\ RequestedTokens > maxTokens) => ~lastCall.value

\* a full manager whose second item evicted the first has just rejected a text
\* that alone costs more than its ceiling
C19_Witness ==
  /\ maxTokens = 1
  /\ contextCalls = 4
  /\ Len(items) = 1
  /\ items[1].id = 2
  /\ CostSum(items) = maxTokens
  /\ lastCall.op = "addItem"
  /\ RequestedTokens > maxTokens
  /\ ~lastCall.value

\* the items in the order compress considers them: priority descending, then
\* recency descending
Ordered == SortDescending(items)

\* the length of the longest prefix of its whose costs sum to at most target
LongestPrefix(its, target) ==
  CHOOSE n \in 0..Len(its) :
    /\ CostSum(SubSeq(its, 1, n)) <= target
    /\ \A k \in (n + 1)..Len(its) : CostSum(SubSeq(its, 1, k)) > target

\* C20: compress retains exactly the longest prefix of the items, ordered by
\* priority descending and recency descending, whose costs sum to at most 70%
\* of the ceiling: every item after that prefix is discarded.
C20_CompressKeepsLongestPrefix ==
  [][ContextCalled("compress")
     => items' = SubSeq(Ordered, 1, LongestPrefix(Ordered, targetTokens(maxTokens)))]_vars

\* the retained items in the order they were inserted
InsertionOrder ==
  CHOOSE s \in [1..Len(items) -> {items[i] : i \in 1..Len(items)}] :
    /\ \A i \in 1..Len(items) : \E j \in 1..Len(items) : s[j] = items[i]
    /\ \A i, j \in 1..Len(items) : i < j => s[i].id < s[j].id

\* the texts of its joined by blank lines
RECURSIVE JoinedContents(_)
JoinedContents(its) ==
  IF its = <<>> THEN <<>>
  ELSE its[1].content
       \o (IF Len(its) = 1 THEN <<>> ELSE <<"\n", "\n">>)
       \o JoinedContents(SubSeq(its, 2, Len(its)))

\* C21: after any sequence of addItem calls the items are stored in insertion
\* order, and getContext() is their texts in that order joined by blank lines.
C21_ContextInInsertionOrder ==
  /\ items = InsertionOrder
  /\ getContext(items) = JoinedContents(InsertionOrder)

\* ------------------------------------------------------------------------
\* Properties of the ApprovalSystem called directly
\* ------------------------------------------------------------------------
\* the mode the system was last given before call i: by setMode, or else by
\* the constructor's default
PolicyAt(i) ==
  LET sets == {j \in 1..(i - 1) : decisions[j].op = "setMode"}
  IN IF sets = {} THEN "default"
     ELSE decisions[CHOOSE j \in sets : \A k \in sets : k <= j].mode

\* the calls of needsApproval made while the policy was m
DecidedUnder(m) ==
  {i \in 1..Len(decisions) : decisions[i].op = "needsApproval" /\ PolicyAt(i) = m}

\* the call evaluated to the boolean b
Decided(i, b) == decisions[i].returned = [value |-> b, promise |-> FALSE]

HasPredicate(tool) == tool.category # "none" /\ tool.predicate # "none"

\* C22: under strict, needsApproval is true for every tool whose category is
\* not read (write, command, network, none), whatever the params and whatever
\* a predicate of the tool would decide, and false for read-category tools.
C22_StrictFlagsEveryNonRead ==
  \A i \in DecidedUnder("strict") : Decided(i, decisions[i].tool.category # "read")

\* under strict a tool whose own predicate declines was flagged, and so was a
\* tool without a category
C22_Witness ==
  /\ Len(decisions) = 3
  /\ DecidedUnder("strict") = {2, 3}
  /\ decisions[2].tool.name = "deploy"
  /\ Lookup(decisions[2].params.props, "confirm").val = "false"
  /\ Decided(2, TRUE)
  /\ decisions[3].tool = customTool
  /\ Decided(3, TRUE)

\* what the predicate of the tool of call i decides for the params of the call
PredicateDecides(i) == PredicateReturns(decisions[i].tool, decisions[i].params).value

\* C23: under the default policy, for a non-read tool that declares a
\* predicate, needsApproval returns the boolean the predicate decides for the
\* invocation, whether the predicate is a function or an async function.
C23_DefaultReturnsPredicateDecision ==
  \A i \in DecidedUnder("default") :
    (decisions[i].tool.category # "read" /\ HasPredicate(decisions[i].tool))
    => Decided(i, PredicateDecides(i))

\* C24: under the default policy, for a tool without a predicate,
\* needsApproval is true exactly when the category is write or command; it is
\* false for read, for network and for a tool without a category.
C24_DefaultByCategory ==
  \A i \in DecidedUnder("default") :
    ~HasPredicate(decisions[i].tool)
    => Decided(i, decisions[i].tool.category \in {"write", "command"})

\* under the default policy a network tool and a tool without a category were
\* passed, and write_file and a command tool that declares no predicate were
\* flagged
C24_Witness ==
  /\ DecidedUnder("default") = {1, 2, 3, 4}
  /\ decisions[1].tool.name = "fetch_url"
  /\ Decided(1, FALSE)
  /\ decisions[2].tool = customTool
  /\ Decided(2, FALSE)
  /\ decisions[3].tool = createWriteTool
  /\ Decided(3, TRUE)
  /\ decisions[4].tool = createTool("run_command", "command", "none")
  /\ ~HasPredicate(decisions[4].tool)
  /\ Decided(4, TRUE)

\* C25: under auto_edit, needsApproval is false exactly for read-category
\* tools and true for every other tool: write, command, network and tools
\* without a category.
C25_AutoEditPassesOnlyReads ==
  \A i \in DecidedUnder("auto_edit") :
    /\ decisions[i].tool.category = "read" => Decided(i, FALSE)
    /\ decisions[i].tool.category # "read" => Decided(i, TRUE)

\* under auto_edit write_file was flagged and a read tool with a predicate
\* that asks for approval was passed
C25_Witness ==
  /\ Len(decisions) = 3
  /\ DecidedUnder("auto_edit") = {2, 3}
  /\ decisions[2].tool = createWriteTool
  /\ Decided(2, TRUE)
  /\ decisions[3].tool.name = "search_docs"
  /\ PredicateDecides(3)
  /\ Decided(3, FALSE)

\* C26: under yolo, needsApproval is false for every tool and every params;
\* the policy in force is the one setMode set last, so write_file is flagged
\* again under any other policy set afterwards.
C26_YoloNeverAsks ==
  /\ \A i \in DecidedUnder("yolo") : Decided(i, FALSE)
  /\ \A m \in ApprovalModes \ {"yolo"} :
       \A i \in DecidedUnder(m) : decisions[i].tool = createWriteTool => Decided(i, TRUE)

\* write_file was flagged under the default policy and, after setMode(yolo),
\* a high-risk command was passed
C26_Witness ==
  /\ Len(decisions) = 3
  /\ decisions[1].op = "needsApproval"
  /\ decisions[1].tool = createWriteTool
  /\ Decided(1, TRUE)
  /\ decisions[2].op = "setMode"
  /\ DecidedUnder("yolo") = {3}
  /\ decisions[3].tool = createBashTool
  /\ PredicateDecides(3)
  /\ Decided(3, FALSE)

\* C27: under strict every action requires approval: needsApproval is true for
\* every tool invocation, read-category tools included.
C27_StrictFlagsEverything ==
  \A i \in DecidedUnder("strict") : Decided(i, TRUE)

\* the file tools: read_file and write_file
FileTools == {createReadTool, createWriteTool}

\* C28: under auto_edit all file operations are auto-approved: needsApproval is
\* false for the file tools, and true only for tools that are not file tools.
C28_AutoEditPassesFileTools ==
  \A i \in DecidedUnder("auto_edit") :
    /\ decisions[i].tool \in FileTools => Decided(i, FALSE)
    /\ Decided(i, TRUE) => decisions[i].tool \notin FileTools

\* ------------------------------------------------------------------------
\* Properties of the backoff
\* ------------------------------------------------------------------------
\* C37: the wait after failed attempt number a (from 0) of a model call is
\* 1000 * 2^a ms, so the waits of a step are 1000, 2000, 4000, ...; no wait
\* follows the last allowed attempt or an error that is not transient.
C37_BackoffDoubles ==
  /\ \A i \in 1..Len(delays) : delays[i] = 1000 * 2^(i - 1)
  /\ pc = "backoff"
       => /\ caught.present
          /\ caught.error \in TransientErrors
          /\ attempt < maxRetries - 1
          /\ Len(delays) = attempt + 1
  /\ (caught.present /\ caught.error \notin TransientErrors) => Len(delays) = attempt
  /\ (caught.present /\ attempt >= maxRetries - 1) => Len(delays) = maxRetries - 1

\* three attempts failed with a transient error: 1000 ms and 2000 ms were
\* waited, and no wait followed the third
C37_Witness ==
  /\ maxRetries = 3
  /\ delays = <<1000, 2000>>
  /\ caught.present
  /\ caught.error \in TransientErrors
  /\ attempt = 2
  /\ pc = "done"
  /\ outcome.kind = "thrown"

\* ------------------------------------------------------------------------
\* Properties of the Agent facade's metadata
\* ------------------------------------------------------------------------
\* C32: the envelope Agent.run resolves to reports the run's counts:
\* turnsCount is the number of steps the loop began in the run and
\* toolCallsCount the number of tool invocations made in the run.
C32_EnvelopeReportsCounts ==
  envelope.resolved
  => /\ envelope.turnsCount = StepsBegun
     /\ envelope.toolCallsCount = Len(invocations)

\* the step in which executeWithMode builds the ReActAgent and starts its run
LoopBuilt == pc = "creating" /\ pc' = "step"

\* C38: the reasoning mode is fixed once per Agent.run, before the loop
\* starts, and the loop does not depend on it: the mode is set in the step
\* that starts Agent.run, when nothing of the loop exists yet, and never
\* changes afterwards; the agent that is built and run is the one every other
\* mode would have built, for the same task, step ceiling and tools, so the
\* steps taken and the result are the same under react, plan_solve and
\* reflection.
C38_ModeFixedAndIgnored ==
  [][/\ mode' # mode
          => /\ pc = "idle"
             /\ pc' = "creating"
             /\ mode' \in ReasoningModes
             /\ messages' = <<>>
             /\ events' = <<>>
             /\ modelCalls' = 0
     /\ LoopBuilt
          => \A m \in ReasoningModes :
               /\ maxRetries' = executeWithMode(m).maxRetries
               /\ UNCHANGED <<task, maxSteps, mode>>
               /\ messages' = <<InitialMessage(task)>>
               /\ history' = <<>>
               /\ step' = 0]_vars

\* a run through the facade in plan_solve mode made a tool call, answered in
\* its second step and resolved with success, with the retry ceiling of react
C38_Witness ==
  /\ entry = "agent"
  /\ mode = "plan_solve"
  /\ maxRetries = FacadeMaxRetries
  /\ StepsBegun = 2
  /\ invocations # <<>>
  /\ envelope.resolved
  /\ envelope.success

\* ------------------------------------------------------------------------
\* Properties of the ModeSelector
\* ------------------------------------------------------------------------
\* the task of the last call has a word of the vocabulary, in any case
Mentions(vocabulary) ==
  \E i \in 1..Len(selected.task) : ToLowerCase(selected.task[i]) \in vocabulary

\* C29: selectMode(task, override) returns the override, whatever the task
\* says.
C29_OverrideReturned ==
  selected.userPreference # NoPreference => selected.returned = selected.userPreference

\* a task of refactor words was given with the override react
C29_Witness ==
  /\ selected.userPreference = "react"
  /\ selected.returned = "react"
  /\ Len(selected.task) = MaxWords
  /\ \A i \in 1..Len(selected.task) : selected.task[i] \in {"Refactor", "restructure"}

\* C30: without an override a task with refactor vocabulary yields plan_solve,
\* whatever review or lookup words it also has, and a task with review
\* vocabulary and no refactor vocabulary yields reflection, whatever lookup
\* words it also has.
C30_VocabularyPriority ==
  selected.userPreference = NoPreference
  => /\ Mentions(refactorKeywords) => selected.returned = "plan_solve"
     /\ (Mentions(reviewKeywords) /\ ~Mentions(refactorKeywords))
          => selected.returned = "reflection"

\* a call was made without an override
CalledWithoutOverride == selected.task # <<>> /\ selected.userPreference = NoPreference

\* C31: without an override a task that matches (in any case) the keywords of
\* exactly one category yields that category's mode: refactor vocabulary
\* plan_solve, review vocabulary reflection, lookup vocabulary react; a task
\* matching no category yields react. The result is fixed by the task text.
C31_SingleCategoryDecides ==
  CalledWithoutOverride
  => LET refactor == Mentions(refactorKeywords)
         review == Mentions(reviewKeywords)
         lookup == Mentions(simpleKeywords)
     IN /\ (refactor /\ ~review /\ ~lookup) => selected.returned = "plan_solve"
        /\ (review /\ ~refactor /\ ~lookup) => selected.returned = "reflection"
        /\ (lookup /\ ~refactor /\ ~review) => selected.returned = "react"
        /\ (~refactor /\ ~review /\ ~lookup) => selected.returned = "react"
        /\ selected.returned = selectMode(selected.task, NoPreference)

\* a task written "Review the code", capital first, gave reflection
C31_Witness ==
  /\ CalledWithoutOverride
  /\ selected.task = <<"Review", " the code ">>
  /\ selected.returned = "reflection"

\* ------------------------------------------------------------------------
\* Properties of the reasoning trace under overlapping runs
\* ------------------------------------------------------------------------
\* the records of call k in the trace, in the order they stand there
RecordsOf(k) == SelectSeq(overlap.history, LAMBDA r : r.run = k)

\* C33: while a call of run is in progress the trace is append-only and holds
\* only that call's records: every record it pushed is still there, in the
\* order pushed, and no record of another call stands in the trace; for every
\* interleaving of run() calls on the agent.
C33_TraceOwnedByRun ==
  \A k \in 1..MaxRuns :
    overlap.status[k] = "running"
    => /\ RecordsOf(k) = [n \in 1..overlap.held[k] |-> TraceRecord(k, n)]
       /\ overlap.history = RecordsOf(k)

\* ------------------------------------------------------------------------
\* Properties of the ConversationHistory
\* ------------------------------------------------------------------------
\* the last k elements of s, all of s when it has fewer
Latest(s, k) == SubSeq(s, IF k < Len(s) THEN Len(s) - k + 1 ELSE 1, Len(s))

\* C34: after any sequence of addMessage and clear calls on a history with
\* maxTurns >= 1 the history holds at most maxTurns messages, and they are the
\* messages added last since the last clear, in the order they were added.
C34_HoldsLatestMaxTurns ==
  /\ Len(conversation.messages) <= conversation.maxTurns
  /\ conversation.messages = Latest(conversation.added, conversation.maxTurns)

\* a history of two turns was given three messages and dropped the first
C34_Witness ==
  /\ conversation.maxTurns = 2
  /\ conversation.lastCall.op = "addMessage"
  /\ Len(conversation.added) = 3
  /\ conversation.messages = <<conversation.added[2], conversation.added[3]>>

\* C35: getRecent(n) returns, for every n >= 0, the min(n, stored count)
\* messages added last, in insertion order, and never more than n messages.
C35_GetRecentReturnsLatest ==
  conversation.lastCall.op = "getRecent"
  => /\ conversation.lastCall.returned
          = Latest(conversation.lastCall.before, conversation.lastCall.n)
     /\ Len(conversation.lastCall.returned) <= conversation.lastCall.n

\* a call of compress has completed with no other call changing the history
\* during its await
Compressed ==
  /\ conversation.lastCall.op = "compress"
  /\ conversation.lastCall.during = conversation.lastCall.before

\* C39: compress never increases the number of messages: it leaves a history
\* of at most maxTurns / 2 messages unchanged, and otherwise puts one system
\* summary message in place of the older half and keeps the newer messages
\* unchanged and in order; at most maxTurns messages are held after it, for
\* every maxTurns >= 1.
C39_CompressNeverGrows ==
  Compressed
  => LET before == conversation.lastCall.before
         after == conversation.messages
     IN /\ Len(after) <= Len(before)
        /\ 2 * Len(before) <= conversation.maxTurns => after = before
        /\ 2 * Len(before) > conversation.maxTurns
             => /\ after # <<>>
                /\ after[1].role = "system"
                /\ Tail(after) = sliceFrom(before, Half(Len(before)))
        /\ Len(before) <= conversation.maxTurns => Len(after) <= conversation.maxTurns

\* ------------------------------------------------------------------------
\* Properties of the TokenCounter
\* ------------------------------------------------------------------------
\* the entries the last call removed
Evicted ==
  {e \in {counter.lastCall.before[i] : i \in 1..Len(counter.lastCall.before)} :
     \A j \in 1..Len(counter.contents) : counter.contents[j].id # e.id}

\* the sum of the token counts of the entries held
RECURSIVE RetainedTokens(_)
RetainedTokens(entries) ==
  IF entries = <<>> THEN 0 ELSE count(entries[1].content) + RetainedTokens(Tail(entries))

\* C36: addContent makes room only at the expense of lower-priority content: no
\* entry whose priority is greater than or equal to the incoming priority is
\* evicted; and after any sequence of addContent and reset calls
\* getCurrentUsage() is the sum of the token counts of the entries held and is
\* at most maxTokens.
C36_EvictsOnlyLowerPriority ==
  /\ counter.lastCall.op = "addContent"
       => \A e \in Evicted : e.priority < counter.lastCall.priority
  /\ getCurrentUsage(counter) = RetainedTokens(counter.contents)
  /\ getCurrentUsage(counter) <= counter.maxTokens

====
